---- MODULE Spec2Model ----
(***************************************************************************)
(* Namak Para bookkeeping: pricing table, order summary, order forms,      *)
(* ledger totals and per-order payment status, as implemented by the three *)
(* copies of the front end:                                                *)
(*   "dashboard" : client/src/pages/dashboard.tsx        (retail/wholesale)*)
(*   "tracker"   : client/src/pages/payment-tracker.tsx  (retail/wholesale)*)
(*   "api"       : routes/orderRoutes.js, second half    (product variants, *)
(*                 API + localStorage hybrid)                              *)
(*                                                                         *)
(* Money is counted in half rupees (the price inputs step by 0.5), so that *)
(* the linear fallback prices size*0.25 and size*0.2 are integers.         *)
(***************************************************************************)
EXTENDS Integers, Sequences, FiniteSets, TLC

VARIABLES
    app,             \* which copy of the front end is running
    storedPrices,    \* localStorage selling prices: <<>> (no item) or <<table>>
    currentPrices,   \* React state currentPrices / sellingPrices of the session
    loaded,          \* the load effect has run since the last refresh
    orders,          \* localStorage order list
    dbOrders,        \* Order collection of the backend
    payments,        \* localStorage payment list of the dashboard
    incomeEntries,   \* localStorage income list of the tracker
    expenseEntries,  \* localStorage expense list of the tracker
    nextId,          \* the clock behind Date.now() ids
    materials,       \* localStorage material list of the dashboard
    usageList,       \* localStorage material usage list of the dashboard
    batchSize,       \* MaterialUsageForm: the batch size field, <<>> when empty
    searchFilters,   \* React state searchFilters of the tracker
    statusFilter,    \* React state statusFilter
    priceTypeFilter, \* React state priceTypeFilter
    expenseTypeFilter, \* React state expenseTypeFilter
    dbPayments,      \* Payment collection of the backend
    dbExpenses,      \* Expense collection of the backend
    tabPrices,       \* React state currentPrices of a second tab
    tabLoaded,       \* the load effect of the second tab has run
    shownOrders,     \* React state orders of the api copy: the table's rows
    shownExpenses,   \* React state expenseEntries of the api copy
    pendingRequests  \* api copy: update requests started and not yet settled

materialVars == <<materials, usageList, batchSize>>

filterVars == <<searchFilters, statusFilter, priceTypeFilter, expenseTypeFilter>>

ledgerDbVars == <<dbPayments, dbExpenses>>

sessionVars ==
    <<tabPrices, tabLoaded, shownOrders, shownExpenses, pendingRequests>>

vars == <<app, storedPrices, currentPrices, loaded, orders, dbOrders,
          payments, incomeEntries, expenseEntries, nextId,
          materialVars, filterVars, ledgerDbVars, sessionVars>>

----------------------------------------------------------------------------
(* Bounds of the model *)

\* update requests of the api copy in flight at the same time
MaxInFlight == 1

\* ids the REST backend hands out and is asked for in one run
MaxRestId == 4
\* records kept in a backend collection at the same time
MaxRestRecords == 2

\* stock and price updates range over the first NumMaterials materials
NumMaterials == 2
\* largest stock (tenths of a unit) a material is brought to
MaxStock == 2
\* largest price (rupees) typed into a material price input
MaxMaterialPrice == 1
\* material usages kept at the same time
MaxUsages == 1
\* the weights fed to the material calculations lie around 0..MaxBatches
\* batches of 5 kg
MaxBatches == 2

\* ids handed out in one run of the filtered views
MaxViewId == 2
\* entries, of each kind, listed at the same time in the filtered views
MaxViewEntries == 2

\* price updates and order lines range over the first NumSizes packet sizes
NumSizes == 2
\* largest price (half rupees) typed into a price input
MaxPrice == 1
\* largest quantity typed into a quantity input
MaxQty == 1
\* price updates and orders range over the first NumVariants variants
NumVariants == 2
\* orders kept at the same time
MaxOrders == 1
\* ids handed out in one run
MaxId == 2
\* payments kept at the same time
MaxPayments == 2
\* largest amount (half rupees) typed into an amount input
MaxAmount == 2
\* income entries, and expense entries, kept at the same time
MaxEntries == 2

\* ledger entries ever created in one run
MaxLedgerId == 4

----------------------------------------------------------------------------
(* JavaScript values *)

\* obj[key]: <<v>> when the key is present, <<>> for undefined
Lookup(obj, key) == IF key \in DOMAIN obj THEN <<obj[key]>> ELSE <<>>

\* truthiness of a number-or-undefined (NaN is written <<>> as well)
Truthy(x) == x /= <<>> /\ x[1] /= 0

\* x || 0
OrZero(x) == IF Truthy(x) THEN x[1] ELSE 0

\* {}
EmptyObj == <<>>

\* { ...obj, [key]: value }
Spread(obj, key, value) ==
    [k \in DOMAIN obj \cup {key} |-> IF k = key THEN value ELSE obj[k]]

\* String.prototype.trim on the names the forms are fed
Trim(s) == IF s = " " THEN "" ELSE s

\* rupees to half rupees
Rs(n) == 2 * n

----------------------------------------------------------------------------
(* Configuration *)

PACKET_SIZES == <<50, 100, 250, 500, 1000>>

SizeSet == {PACKET_SIZES[i] : i \in 1..Len(PACKET_SIZES)}

PriceTypes == {"retail", "wholesale"}

PRODUCT_VARIANTS == {"sada", "peri-peri", "cheese"}

\* orderForm.priceType of the api copy: the form has no such field
UndefinedVariant == "undefined"

VariantsOf(a) == IF a = "api" THEN PRODUCT_VARIANTS ELSE PriceTypes

Dash_defaultPrices ==
    [retail    |-> (50 :> Rs(15) @@ 100 :> Rs(25) @@ 250 :> Rs(70)
                    @@ 500 :> Rs(100) @@ 1000 :> Rs(250)),
     wholesale |-> (50 :> Rs(12) @@ 100 :> Rs(20) @@ 250 :> Rs(56)
                    @@ 500 :> Rs(80) @@ 1000 :> Rs(200))]

Trk_defaultPrices ==
    [retail    |-> (50 :> Rs(15) @@ 100 :> Rs(25) @@ 250 :> Rs(70)
                    @@ 500 :> Rs(100) @@ 1000 :> Rs(250)),
     wholesale |-> (50 :> Rs(12) @@ 100 :> Rs(20) @@ 250 :> Rs(56)
                    @@ 500 :> Rs(80) @@ 1000 :> Rs(200))]

Api_defaultPrices ==
    ("sada"      :> (50 :> Rs(15) @@ 100 :> Rs(25) @@ 250 :> Rs(50)
                     @@ 500 :> Rs(100) @@ 1000 :> Rs(200))) @@
    ("peri-peri" :> (50 :> Rs(20) @@ 100 :> Rs(30) @@ 250 :> Rs(75)
                     @@ 500 :> Rs(150) @@ 1000 :> Rs(275))) @@
    ("cheese"    :> (50 :> Rs(20) @@ 100 :> Rs(30) @@ 250 :> Rs(75)
                     @@ 500 :> Rs(150) @@ 1000 :> Rs(275)))

----------------------------------------------------------------------------
(* Pricing store *)

Dash_getSellingPrices(stored) ==
    IF stored = <<>> THEN Dash_defaultPrices ELSE stored[1]

Trk_getSellingPrices(stored) ==
    IF stored = <<>> THEN Trk_defaultPrices ELSE stored[1]

Api_getSellingPrices(stored) ==
    IF stored = <<>> THEN Api_defaultPrices ELSE stored[1]

\* size * 0.2 (wholesale) or size * 0.25, in half rupees
Dash_fallbackPrice(priceType, size) ==
    IF priceType = "wholesale" THEN (size * 2) \div 5 ELSE size \div 2

\* a fallback that takes size * 0.25 for wholesale as well; C30 tells it from
\* Trk_fallbackPrice
Trk_fallbackPrice_Flat(priceType, size) == size \div 2

Trk_fallbackPrice(priceType, size) ==
    IF priceType = "wholesale" THEN (size * 2) \div 5 ELSE size \div 2

\* allPrices[priceType] || allPrices.retail || {}
Dash_selectedPrices(allPrices, priceType) ==
    IF priceType \in DOMAIN allPrices THEN allPrices[priceType]
    ELSE IF "retail" \in DOMAIN allPrices THEN allPrices["retail"]
    ELSE EmptyObj

Trk_selectedPrices(allPrices, priceType) ==
    IF priceType \in DOMAIN allPrices THEN allPrices[priceType]
    ELSE IF "retail" \in DOMAIN allPrices THEN allPrices["retail"]
    ELSE EmptyObj

\* the unit price both calculateSummary and handleSubmit take for one size
Dash_pricePerPacket(selectedPrices, priceType, size) ==
    IF Truthy(Lookup(selectedPrices, size))
    THEN Lookup(selectedPrices, size)
    ELSE <<Dash_fallbackPrice(priceType, size)>>

Trk_pricePerPacket(selectedPrices, priceType, size) ==
    IF Truthy(Lookup(selectedPrices, size))
    THEN Lookup(selectedPrices, size)
    ELSE <<Trk_fallbackPrice(priceType, size)>>

\* api copy, calculateOrderSummary: allPrices[productVariant] || {}
Api_summarySelectedPrices(allPrices, productVariant) ==
    IF productVariant \in DOMAIN allPrices THEN allPrices[productVariant]
    ELSE EmptyObj

\* defaultPrices[productVariant]?.[size] || 0
Api_defaultPriceOrZero(productVariant, size) ==
    IF productVariant \in DOMAIN Api_defaultPrices
    THEN OrZero(Lookup(Api_defaultPrices[productVariant], size))
    ELSE 0

\* api copy, calculateOrderSummary: the unit price of one size
Api_summaryPricePerPacket(selectedPrices, productVariant, size) ==
    IF Truthy(Lookup(selectedPrices, size))
    THEN Lookup(selectedPrices, size)
    ELSE <<Api_defaultPriceOrZero(productVariant, size)>>

\* api copy, handleOrderSubmit: currentPrices[variant], else the default row
Api_submitSelectedPrices(allPrices, productVariant) ==
    IF productVariant \in DOMAIN allPrices THEN allPrices[productVariant]
    ELSE IF productVariant \in DOMAIN Api_defaultPrices
         THEN Api_defaultPrices[productVariant]
    ELSE EmptyObj

\* api copy, handleOrderSubmit: selectedPrices[size] || 0
Api_submitPricePerPacket(selectedPrices, size) ==
    <<OrZero(Lookup(selectedPrices, size))>>

----------------------------------------------------------------------------
(* Order summary *)

ZeroSummary == [totalWeight |-> 0, totalPackets |-> 0, totalAmount |-> 0]

\* a faulty reading of the quantity, an absent size counted as one packet;
\* C2 tells it from Dash_qty
Dash_qty_AbsentIsOne(packages, size) ==
    IF size \in DOMAIN packages THEN packages[size] ELSE 1

\* const qty = packages[size] || 0
Dash_qty(packages, size) == OrZero(Lookup(packages, size))

Trk_qty(packages, size) == OrZero(Lookup(packages, size))

\* a faulty reading of the quantity, packages[size] || 1; C3 tells it from
\* Api_qty
Api_qty_OrOne(packages, size) ==
    IF Truthy(Lookup(packages, size)) THEN packages[size] ELSE 1

Api_qty(packages, size) == OrZero(Lookup(packages, size))

\* CONFIG.PACKET_SIZES.forEach, from the i-th size on, with the totals so far
RECURSIVE Dash_forEachSize(_, _, _, _, _)
Dash_forEachSize(i, acc, selectedPrices, packages, priceType) ==
    IF i > Len(PACKET_SIZES) THEN acc
    ELSE LET size == PACKET_SIZES[i]
             qty == Dash_qty(packages, size)
             weight == size * qty
             pricePerPacket == Dash_pricePerPacket(selectedPrices, priceType, size)[1]
             amount == pricePerPacket * qty
         IN  Dash_forEachSize(i + 1,
                 [totalWeight  |-> acc.totalWeight + weight,
                  totalPackets |-> acc.totalPackets + qty,
                  totalAmount  |-> acc.totalAmount + amount],
                 selectedPrices, packages, priceType)

Dash_calculateSummary(stored, packages, priceType) ==
    Dash_forEachSize(1, ZeroSummary,
        Dash_selectedPrices(Dash_getSellingPrices(stored), priceType),
        packages, priceType)

RECURSIVE Trk_forEachSize(_, _, _, _, _)
Trk_forEachSize(i, acc, selectedPrices, packages, priceType) ==
    IF i > Len(PACKET_SIZES) THEN acc
    ELSE LET size == PACKET_SIZES[i]
             qty == Trk_qty(packages, size)
             weight == size * qty
             pricePerPacket == Trk_pricePerPacket(selectedPrices, priceType, size)[1]
             amount == pricePerPacket * qty
         IN  Trk_forEachSize(i + 1,
                 [totalWeight  |-> acc.totalWeight + weight,
                  totalPackets |-> acc.totalPackets + qty,
                  totalAmount  |-> acc.totalAmount + amount],
                 selectedPrices, packages, priceType)

Trk_calculateOrderSummary(stored, packages, priceType) ==
    Trk_forEachSize(1, ZeroSummary,
        Trk_selectedPrices(Trk_getSellingPrices(stored), priceType),
        packages, priceType)

RECURSIVE Api_forEachSize(_, _, _, _, _)
Api_forEachSize(i, acc, selectedPrices, packages, productVariant) ==
    IF i > Len(PACKET_SIZES) THEN acc
    ELSE LET size == PACKET_SIZES[i]
             qty == Api_qty(packages, size)
             weight == size * qty
             pricePerPacket ==
                 Api_summaryPricePerPacket(selectedPrices, productVariant, size)[1]
             amount == pricePerPacket * qty
         IN  Api_forEachSize(i + 1,
                 [totalWeight  |-> acc.totalWeight + weight,
                  totalPackets |-> acc.totalPackets + qty,
                  totalAmount  |-> acc.totalAmount + amount],
                 selectedPrices, packages, productVariant)

\* the api copy reads the React state currentPrices, not the store
Api_calculateOrderSummary(current, packages, productVariant) ==
    Api_forEachSize(1, ZeroSummary,
        Api_summarySelectedPrices(current, productVariant),
        packages, productVariant)

----------------------------------------------------------------------------
(* Package line items built by the submit handlers *)

\* CONFIG.PACKET_SIZES.filter(size => packages[size] > 0)
OrderedSizes(packages) ==
    SelectSeq(PACKET_SIZES,
              LAMBDA size : size \in DOMAIN packages /\ packages[size] > 0)

PackageItem(size, qty, pricePerPacket) ==
    [size |-> size, quantity |-> qty, weight |-> size * qty,
     amount |-> pricePerPacket * qty]

Dash_packageItems(stored, packages, priceType) ==
    LET selectedPrices ==
            Dash_selectedPrices(Dash_getSellingPrices(stored), priceType)
        sizes == OrderedSizes(packages)
    IN  [i \in 1..Len(sizes) |->
            PackageItem(sizes[i], packages[sizes[i]],
                Dash_pricePerPacket(selectedPrices, priceType, sizes[i])[1])]

Trk_packageItems(stored, packages, priceType) ==
    LET selectedPrices ==
            Trk_selectedPrices(Trk_getSellingPrices(stored), priceType)
        sizes == OrderedSizes(packages)
    IN  [i \in 1..Len(sizes) |->
            PackageItem(sizes[i], packages[sizes[i]],
                Trk_pricePerPacket(selectedPrices, priceType, sizes[i])[1])]

Api_packageItems(current, packages, productVariant) ==
    LET selectedPrices == Api_submitSelectedPrices(current, productVariant)
        sizes == OrderedSizes(packages)
    IN  [i \in 1..Len(sizes) |->
            PackageItem(sizes[i], packages[sizes[i]],
                Api_submitPricePerPacket(selectedPrices, sizes[i])[1])]

----------------------------------------------------------------------------
(* What the user can type and select *)

EditSizes == {PACKET_SIZES[i] : i \in 1..NumSizes}

VariantList(a) ==
    IF a = "api" THEN <<"sada", "peri-peri", "cheese">>
    ELSE <<"retail", "wholesale">>

EditVariants(a) ==
    {VariantList(a)[i] : i \in {j \in 1..NumVariants : j <= Len(VariantList(a))}}

\* parseFloat of a price input: NaN (<<>>) or a number of half rupees
PriceInputs == {<<>>} \cup {<<p>> : p \in -1..MaxPrice}

\* one quantity input: never touched (<<>>) or the number left in it; the
\* tracker forms are not submitted with a number under the input's min="0"
TypedQty(a) ==
    {<<>>} \cup {<<q>> : q \in (IF a = "dashboard" THEN -1 ELSE 0)..MaxQty}

Typings(a) == [1..NumSizes -> TypedQty(a)]

CustomerNames == {"", " ", "Asha"}

DeliveryDates == {"", "2025-01-01"}

\* setPackages(prev => ({...prev, [size]: Math.max(0, quantity)}))
Dash_updatePackageQuantity(prev, size, quantity) ==
    Spread(prev, size, IF quantity > 0 THEN quantity ELSE 0)

\* packages: {...prev.packages, [size]: parseInt(e.target.value) || 0}
Trk_setQuantity(prev, size, quantity) == Spread(prev, size, quantity)

Api_setQuantity(prev, size, quantity) == Spread(prev, size, quantity)

\* the packages state after the quantity inputs were typed into, in order
RECURSIVE TypedPackages(_, _, _)
TypedPackages(a, typed, i) ==
    IF i = 0 THEN EmptyObj
    ELSE LET prev == TypedPackages(a, typed, i - 1)
             size == PACKET_SIZES[i]
         IN  IF typed[i] = <<>> THEN prev
             ELSE IF a = "dashboard"
                  THEN Dash_updatePackageQuantity(prev, size, typed[i][1])
             ELSE IF a = "tracker"
                  THEN Trk_setQuantity(prev, size, typed[i][1])
             ELSE Api_setQuantity(prev, size, typed[i][1])

PackagesOf(a, typed) == TypedPackages(a, typed, NumSizes)

----------------------------------------------------------------------------
(* Price updates *)

\* DataManager.updateSellingPrice: the table it saves
Dash_updateSellingPrice(stored, type, size, newPrice) ==
    LET prices == Dash_getSellingPrices(stored)
        row == IF type \in DOMAIN prices THEN prices[type] ELSE EmptyObj
    IN  Spread(prices, type, Spread(row, size, newPrice))

\* ProductPricingSection.savePrice: the store and the sellingPrices state it
\* leaves; newPrice is parseFloat(tempPrice)
Dash_savePrice(stored, current, priceType, editingSize, newPrice) ==
    IF newPrice /= <<>> /\ newPrice[1] > 0
    THEN LET saved == Dash_updateSellingPrice(stored, priceType, editingSize,
                                              newPrice[1])
         IN  [storedPrices |-> <<saved>>,
              currentPrices |-> Dash_getSellingPrices(<<saved>>),
              showError |-> FALSE]
    ELSE [storedPrices |-> stored, currentPrices |-> current, showError |-> TRUE]

\* a handlePriceUpdate that spreads the stored table instead of the React
\* state; C21 tells it from Trk_handlePriceUpdate
Trk_handlePriceUpdate_SpreadsStore(stored, current, type, size, newPrice) ==
    IF newPrice < 0
    THEN [storedPrices |-> stored, currentPrices |-> current, showError |-> FALSE]
    ELSE LET read == Trk_getSellingPrices(stored)
             updatedPrices ==
                 Spread(read, type,
                        Spread(IF type \in DOMAIN read THEN read[type]
                               ELSE EmptyObj,
                               size, newPrice))
         IN  [storedPrices |-> <<updatedPrices>>, currentPrices |-> updatedPrices,
              showError |-> FALSE]

\* handlePriceUpdate of the tracker: the currentPrices it sets and the store
Trk_handlePriceUpdate(stored, current, type, size, newPrice) ==
    IF newPrice < 0
    THEN [storedPrices |-> stored, currentPrices |-> current, showError |-> FALSE]
    ELSE LET updatedPrices ==
                 Spread(current, type,
                        Spread(IF type \in DOMAIN current THEN current[type]
                               ELSE EmptyObj,
                               size, newPrice))
         IN  [storedPrices |-> <<updatedPrices>>, currentPrices |-> updatedPrices,
              showError |-> FALSE]

\* handlePriceUpdate without its first line, the guard on negative prices;
\* C6 tells it from Api_handlePriceUpdate
Api_handlePriceUpdate_NoGuard(stored, current, variant, size, newPrice) ==
    LET updatedPrices ==
            Spread(current, variant,
                   Spread(IF variant \in DOMAIN current THEN current[variant]
                          ELSE EmptyObj,
                          size, newPrice))
    IN  [storedPrices |-> <<updatedPrices>>, currentPrices |-> updatedPrices,
         showError |-> FALSE]

Api_handlePriceUpdate(stored, current, variant, size, newPrice) ==
    IF newPrice < 0
    THEN [storedPrices |-> stored, currentPrices |-> current, showError |-> FALSE]
    ELSE LET updatedPrices ==
                 Spread(current, variant,
                        Spread(IF variant \in DOMAIN current THEN current[variant]
                               ELSE EmptyObj,
                               size, newPrice))
         IN  [storedPrices |-> <<updatedPrices>>, currentPrices |-> updatedPrices,
              showError |-> FALSE]

----------------------------------------------------------------------------
(* Order submission *)

\* OrderForm.handleSubmit: <<>> when rejected, else the order data
Dash_orderData(stored, customerName, deliveryDate, packages, priceType) ==
    LET summary == Dash_calculateSummary(stored, packages, priceType)
    IN  IF Trim(customerName) = "" THEN <<>>
        ELSE IF deliveryDate = "" THEN <<>>
        ELSE IF summary.totalPackets = 0 THEN <<>>
        ELSE <<[customerName |-> Trim(customerName),
                deliveryDate |-> deliveryDate,
                packages     |-> Dash_packageItems(stored, packages, priceType),
                totalWeight  |-> summary.totalWeight,
                totalAmount  |-> summary.totalAmount,
                priceType    |-> priceType,
                status       |-> "pending"]>>

\* handleOrderSubmit without the totalPackets === 0 return; C11 tells it from
\* Trk_orderData
Trk_orderData_NoPacketCheck(stored, customerName, deliveryDate, packages, priceType) ==
    LET summary == Trk_calculateOrderSummary(stored, packages, priceType)
    IN  IF Trim(customerName) = "" THEN <<>>
        ELSE <<[customerName |-> Trim(customerName),
                deliveryDate |-> deliveryDate,
                packages     |-> Trk_packageItems(stored, packages, priceType),
                totalWeight  |-> summary.totalWeight,
                totalAmount  |-> summary.totalAmount,
                status       |-> "pending",
                priceType    |-> priceType]>>

Trk_orderData(stored, customerName, deliveryDate, packages, priceType) ==
    LET summary == Trk_calculateOrderSummary(stored, packages, priceType)
    IN  IF Trim(customerName) = "" THEN <<>>
        ELSE IF summary.totalPackets = 0 THEN <<>>
        ELSE <<[customerName |-> Trim(customerName),
                deliveryDate |-> deliveryDate,
                packages     |-> Trk_packageItems(stored, packages, priceType),
                totalWeight  |-> summary.totalWeight,
                totalAmount  |-> summary.totalAmount,
                status       |-> "pending",
                priceType    |-> priceType]>>

Api_orderData(current, customerName, deliveryDate, packages, productVariant) ==
    LET summary == Api_calculateOrderSummary(current, packages, productVariant)
    IN  IF Trim(customerName) = "" THEN <<>>
        ELSE IF summary.totalPackets = 0 THEN <<>>
        ELSE <<[customerName   |-> Trim(customerName),
                deliveryDate   |-> deliveryDate,
                packages       |-> Api_packageItems(current, packages, productVariant),
                totalWeight    |-> summary.totalWeight,
                totalAmount    |-> summary.totalAmount,
                status         |-> "pending",
                productVariant |-> productVariant]>>

\* addOrder: {...order, id, createdAt} pushed on the stored list
AddOrder(list, order, id) ==
    Append(list, order @@ [id |-> id, createdAt |-> id])

\* orders.filter(o => o.id !== orderId)
DeleteOrder(list, orderId) == SelectSeq(list, LAMBDA o : o.id /= orderId)

----------------------------------------------------------------------------
(* Backend: POST /api/orders and GET /api/orders *)

createOrder_fields == {"customerName", "size", "quantity", "date"}

orderSchema_paths ==
    {"customerName", "deliveryDate", "packages", "totalWeight", "totalAmount",
     "priceType", "status"}

orderSchema_required ==
    {"customerName", "deliveryDate", "totalWeight", "totalAmount"}

\* createOrder: the response to a request body
createOrder(body, id) ==
    LET picked == [k \in DOMAIN body \cap createOrder_fields |-> body[k]]
        doc == [k \in DOMAIN picked \cap orderSchema_paths |-> picked[k]]
    IN  IF orderSchema_required \subseteq DOMAIN doc
        THEN [status |-> 201,
              order  |-> doc @@ [packages |-> <<>>, priceType |-> "retail",
                                 status |-> "pending", _id |-> id]]
        ELSE [status |-> 400]

\* the body PaymentDataManager.addOrder posts
Api_orderBody(order, now) ==
    [customerName |-> order.customerName, deliveryDate |-> order.deliveryDate,
     packages |-> order.packages, totalWeight |-> order.totalWeight,
     totalAmount |-> order.totalAmount, status |-> order.status,
     productVariant |-> order.productVariant, date |-> now]

Api_mapOrder(o) ==
    [id |-> o._id, customerName |-> o.customerName,
     deliveryDate |-> o.deliveryDate, packages |-> o.packages,
     totalWeight |-> o.totalWeight, totalAmount |-> o.totalAmount,
     status |-> o.status, productVariant |-> "sada", createdAt |-> o._id]

\* PaymentDataManager.getOrders: the API list, or localStorage when it fails
Api_getOrders(ok, db, local) ==
    IF ok THEN [i \in 1..Len(db) |-> Api_mapOrder(db[i])] ELSE local

----------------------------------------------------------------------------
(* Order status *)

\* order.status === 'pending' ? 'completed' : 'pending'
OtherStatus(status) == IF status = "pending" THEN "completed" ELSE "pending"

\* orders.find(o => o.id === id), its status set; the list as it is saved
SetStatus(list, id, status) ==
    LET hits == {i \in 1..Len(list) : list[i].id = id}
    IN  IF hits = {} THEN list
        ELSE LET first == CHOOSE i \in hits : \A k \in hits : i <= k
             IN  [list EXCEPT ![first].status = status]

\* an updateOrderStatus that writes the order back without its line items;
\* C14 tells it from Trk_updateOrderStatus
Trk_updateOrderStatus_DropsItems(list, id, status) ==
    [i \in 1..Len(list) |->
        IF list[i].id = id
        THEN [list[i] EXCEPT !.status = status, !.packages = <<>>]
        ELSE list[i]]

\* PaymentDataManager.updateOrderStatus of the tracker
Trk_updateOrderStatus(list, id, status) == SetStatus(list, id, status)

orderSchema_statusEnum == {"pending", "completed", "cancelled"}

\* backend updateOrder: findByIdAndUpdate(id, body, {runValidators: true})
updateOrder(db, id, body) ==
    LET hits == {i \in 1..Len(db) : db[i]._id = id}
    IN  IF "status" \in DOMAIN body /\ body.status \notin orderSchema_statusEnum
        THEN [status |-> 400, db |-> db]
        ELSE IF hits = {} THEN [status |-> 404, db |-> db]
        ELSE LET i == CHOOSE k \in hits : TRUE
             IN  [status |-> 200,
                  db |-> [db EXCEPT ![i] =
                            [f \in DOMAIN @ |->
                               IF f \in DOMAIN body THEN body[f] ELSE @[f]]]]

\* PaymentDataManager.updateOrderStatus of the api copy: the PUT, and when it
\* fails the list getOrders gives, saved to localStorage if the order is in it
Api_updateOrderStatus(putUp, getUp, db, local, id, status) ==
    LET response == IF putUp THEN updateOrder(db, id, [status |-> status])
                    ELSE [status |-> 0, db |-> db]
        read == Api_getOrders(getUp, db, local)
    IN  IF response.status = 200
        THEN [db |-> response.db, local |-> local]
        ELSE IF \E i \in 1..Len(read) : read[i].id = id
             THEN [db |-> db, local |-> SetStatus(read, id, status)]
        ELSE [db |-> db, local |-> local]

\* backend deleteOrder: findByIdAndDelete(id)
deleteOrder(db, id) ==
    IF \E i \in 1..Len(db) : db[i]._id = id
    THEN [status |-> 200, db |-> SelectSeq(db, LAMBDA o : o._id /= id)]
    ELSE [status |-> 404, db |-> db]

\* PaymentDataManager.deleteOrder of the api copy: the DELETE, and when it
\* fails the list getOrders gives, filtered and saved to localStorage
Api_deleteOrder(deleteUp, getUp, db, local, id) ==
    LET response == IF deleteUp THEN deleteOrder(db, id)
                    ELSE [status |-> 0, db |-> db]
    IN  IF response.status = 200
        THEN [db |-> response.db, local |-> local]
        ELSE [db |-> db,
              local |-> DeleteOrder(Api_getOrders(getUp, db, local), id)]

----------------------------------------------------------------------------
(* Materials of the dashboard *)

\* Material quantities and production costs are counted in 1/700000 of a kg,
\* a minute or a rupee, so that /1000, /1.4, *0.1, *0.02 and *0.01 applied to
\* a weight in whole grams are exact; stock is counted in tenths of a unit
\* (the stock input steps by 0.1) and material prices in whole rupees.
FxOne == 700000

Fx(n) == n * FxOne

\* CONFIG.YIELD_RATIO, in tenths
YIELD_RATIO == 14

\* CONFIG.GAS_COST_PER_MINUTE, rupees
GAS_COST_PER_MINUTE == 2

\* Math.ceil of a fixed-point number
Math_ceil(x) == (-((-x) \div FxOne)) * FxOne

\* String.prototype.toLowerCase on the material names and requirement keys
toLowerCase(s) ==
    CASE s = "Maida"  -> "maida"
      [] s = "Oil"    -> "oil"
      [] s = "Salt"   -> "salt"
      [] s = "Ajwain" -> "ajwain"
      [] s = "Gas"    -> "gas"
      [] s = "gasMinutes" -> "gasminutes"
      [] s = "Asha"   -> "asha"
      [] OTHER        -> s

\* initializeDefaultData: the materials saved when the list is empty
DefaultMaterials ==
    << [id |-> 1, name |-> "Maida",  pricePerUnit |-> 45,  stock |-> 0],
       [id |-> 2, name |-> "Oil",    pricePerUnit |-> 120, stock |-> 0],
       [id |-> 3, name |-> "Salt",   pricePerUnit |-> 5,   stock |-> 0],
       [id |-> 4, name |-> "Ajwain", pricePerUnit |-> 7,   stock |-> 0],
       [id |-> 5, name |-> "Gas",    pricePerUnit |-> 25,  stock |-> 0] >>

\* gasMinutes with the weight taken modulo the batch of 5 kg; C17 tells it
\* from calculateMaterialRequirements
calculateMaterialRequirements_GasOfRemainder(totalWeightInGrams) ==
    LET weightInKg == totalWeightInGrams * (FxOne \div 1000)
    IN  [maida      |-> (weightInKg * 10) \div YIELD_RATIO,
         oil        |-> weightInKg \div 10,
         salt       |-> (weightInKg * 2) \div 100,
         ajwain     |-> weightInKg \div 100,
         gasMinutes |-> Math_ceil((weightInKg % Fx(5)) \div 5) * 30]

\* gasMinutes scaled linearly, without the ceiling; C15 tells it from
\* calculateMaterialRequirements
calculateMaterialRequirements_LinearGas(totalWeightInGrams) ==
    LET weightInKg == totalWeightInGrams * (FxOne \div 1000)
    IN  [maida      |-> (weightInKg * 10) \div YIELD_RATIO,
         oil        |-> weightInKg \div 10,
         salt       |-> (weightInKg * 2) \div 100,
         ajwain     |-> weightInKg \div 100,
         gasMinutes |-> (weightInKg \div 5) * 30]

\* BusinessCalculator.calculateMaterialRequirements
calculateMaterialRequirements(totalWeightInGrams) ==
    LET weightInKg == totalWeightInGrams * (FxOne \div 1000)
    IN  [maida      |-> (weightInKg * 10) \div YIELD_RATIO,
         oil        |-> weightInKg \div 10,
         salt       |-> (weightInKg * 2) \div 100,
         ajwain     |-> weightInKg \div 100,
         gasMinutes |-> Math_ceil(weightInKg \div 5) * 30]

\* the names compared as they are; C16 tells it from findMaterial
findMaterial_CaseSensitive(list, materialName) ==
    LET hits == {i \in 1..Len(list) : list[i].name = materialName}
    IN  IF hits = {} THEN <<>>
        ELSE <<list[CHOOSE i \in hits : \A j \in hits : i <= j]>>

\* materials.find(m => m.name.toLowerCase() === materialName.toLowerCase()):
\* <<m>> for the first such material, <<>> for undefined
findMaterial(list, materialName) ==
    LET hits == {i \in 1..Len(list) :
                    toLowerCase(list[i].name) = toLowerCase(materialName)}
    IN  IF hits = {} THEN <<>>
        ELSE <<list[CHOOSE i \in hits : \A j \in hits : i <= j]>>

\* Object.entries(materialUsage).forEach over the keys not yet visited
RECURSIVE forEachEntry(_, _, _, _)
forEachEntry(keys, totalCost, materialUsage, list) ==
    IF keys = {} THEN totalCost
    ELSE LET materialName == CHOOSE k \in keys : TRUE
             quantity == materialUsage[materialName]
             material == findMaterial(list, materialName)
             cost == IF materialName = "gasMinutes"
                     THEN quantity * GAS_COST_PER_MINUTE
                     ELSE IF material /= <<>>
                          THEN quantity * material[1].pricePerUnit
                     ELSE 0
         IN  forEachEntry(keys \ {materialName}, totalCost + cost,
                          materialUsage, list)

\* BusinessCalculator.calculateProductionCost, list = DataManager.getMaterials()
calculateProductionCost(materialUsage, list) ==
    forEachEntry(DOMAIN materialUsage, 0, materialUsage, list)

\* DataManager.updateMaterialStock
updateMaterialStock(list, materialId, additionalStock) ==
    [i \in 1..Len(list) |->
        IF list[i].id = materialId /\ \A j \in 1..(i - 1) : list[j].id /= materialId
        THEN [list[i] EXCEPT !.stock = @ + additionalStock]
        ELSE list[i]]

\* the stock is replaced by the quantity added; C18 tells it from
\* MaterialsContent_handleStockUpdate
MaterialsContent_handleStockUpdate_Replaces(list, materialId, additionalStock) ==
    IF additionalStock <= 0 THEN list
    ELSE [i \in 1..Len(list) |->
             IF list[i].id = materialId
             THEN [list[i] EXCEPT !.stock = additionalStock]
             ELSE list[i]]

\* MaterialsContent.handleStockUpdate
MaterialsContent_handleStockUpdate(list, materialId, additionalStock) ==
    IF additionalStock <= 0 THEN list
    ELSE updateMaterialStock(list, materialId, additionalStock)

\* MaterialCard.handleStockUpdate: quantity = parseFloat(additionalStock),
\* <<>> for NaN
MaterialCard_handleStockUpdate(list, materialId, quantity) ==
    IF quantity /= <<>> /\ quantity[1] > 0
    THEN MaterialsContent_handleStockUpdate(list, materialId, quantity[1])
    ELSE list

\* DataManager.updateMaterialPrice
updateMaterialPrice(list, materialId, newPrice) ==
    [i \in 1..Len(list) |->
        IF list[i].id = materialId /\ \A j \in 1..(i - 1) : list[j].id /= materialId
        THEN [list[i] EXCEPT !.pricePerUnit = newPrice]
        ELSE list[i]]

\* MaterialCard.handlePriceUpdate and MaterialsContent.handlePriceUpdate
MaterialCard_handlePriceUpdate(list, materialId, price) ==
    IF price /= <<>> /\ price[1] > 0
    THEN updateMaterialPrice(list, materialId, price[1])
    ELSE list

\* MaterialUsageForm: the requirements state the effect on [batchSize] sets;
\* batch is in tenths of a kg
MaterialUsageForm_requirements(batch) ==
    IF batch /= <<>> /\ batch[1] > 0
    THEN calculateMaterialRequirements(batch[1] * 100)
    ELSE EmptyObj

\* MaterialUsageForm.handleSubmit: the usage handed to addMaterialUsage, <<>>
\* when the batch size is refused
MaterialUsageForm_usageData(list, batch) ==
    IF ~Truthy(batch) \/ batch[1] <= 0 THEN <<>>
    ELSE LET requirements == MaterialUsageForm_requirements(batch)
         IN  <<[batchSize |-> batch[1],
                materials |-> requirements,
                totalCost |-> calculateProductionCost(requirements, list)]>>

\* DataManager.addMaterialUsage; the id and createdAt it adds are read by
\* nothing but the history table
addMaterialUsage(list, usage) == Append(list, usage)

InitMaterials ==
    /\ materials = IF app = "dashboard" THEN DefaultMaterials ELSE <<>>
    /\ usageList = <<>>
    /\ batchSize = <<>>

InitFilters ==
    /\ searchFilters = [orders |-> "", income |-> "", expenses |-> ""]
    /\ statusFilter = "all"
    /\ priceTypeFilter = "all"
    /\ expenseTypeFilter = "all"

InitLedgerDb ==
    /\ dbPayments = <<>>
    /\ dbExpenses = <<>>

\* a second tab opened on the same page, and what the api copy shows and
\* has in flight after mounting
InitSession ==
    /\ tabPrices = currentPrices
    /\ tabLoaded = loaded
    /\ shownOrders = <<>>
    /\ shownExpenses = <<>>
    /\ pendingRequests = <<>>

----------------------------------------------------------------------------
(* Pricing and order forms: the state machine *)

Init ==
    /\ app \in {"dashboard", "tracker", "api"}
    /\ storedPrices = <<>>
    /\ currentPrices =
           IF app = "dashboard" THEN Dash_getSellingPrices(<<>>)
           ELSE IF app = "tracker" THEN [retail |-> EmptyObj, wholesale |-> EmptyObj]
           ELSE EmptyObj
    /\ loaded = (app = "dashboard")
    /\ orders = <<>>
    /\ dbOrders = <<>>
    /\ payments = <<>>
    /\ incomeEntries = <<>>
    /\ expenseEntries = <<>>
    /\ nextId = 1
    /\ InitMaterials
    /\ InitFilters
    /\ InitLedgerDb
    /\ InitSession

\* tracker: the effect on [refreshKey], run before any event is handled
Trk_loadData ==
    /\ app = "tracker"
    /\ ~loaded
    /\ currentPrices' = Trk_getSellingPrices(storedPrices)
    /\ loaded' = TRUE
    /\ UNCHANGED <<sessionVars, materialVars, filterVars, ledgerDbVars,
                   app, storedPrices, orders, dbOrders, payments,
                   incomeEntries, expenseEntries, nextId>>

\* api copy: loadData resolves; events are handled while it is in flight
Api_loadData ==
    /\ app = "api"
    /\ ~loaded
    /\ currentPrices' = Api_getSellingPrices(storedPrices)
    /\ loaded' = TRUE
    /\ UNCHANGED <<sessionVars, materialVars, filterVars, ledgerDbVars,
                   app, storedPrices, orders, dbOrders, payments,
                   incomeEntries, expenseEntries, nextId>>

Dash_savePriceClickOf(variants, sizes) ==
    /\ app = "dashboard"
    /\ \E priceType \in variants, size \in sizes, tempPrice \in PriceInputs :
          LET r == Dash_savePrice(storedPrices, currentPrices, priceType, size,
                                  tempPrice)
          IN  /\ storedPrices' = r.storedPrices
              /\ currentPrices' = r.currentPrices
    /\ UNCHANGED <<sessionVars, materialVars, filterVars, ledgerDbVars,
                   app, loaded, orders, dbOrders, payments,
                   incomeEntries, expenseEntries, nextId>>

\* onChange of a price input: handlePriceUpdate(type, size, parseFloat(value) || 0)
Trk_priceInputChangeOf(variants, sizes) ==
    /\ app = "tracker"
    /\ loaded
    /\ \E type \in variants, size \in sizes, typed \in PriceInputs :
          LET r == Trk_handlePriceUpdate(storedPrices, currentPrices, type, size,
                                         OrZero(typed))
          IN  /\ storedPrices' = r.storedPrices
              /\ currentPrices' = r.currentPrices
    /\ UNCHANGED <<sessionVars, materialVars, filterVars, ledgerDbVars,
                   app, loaded, orders, dbOrders, payments,
                   incomeEntries, expenseEntries, nextId>>

Api_priceInputChangeOf(variants, sizes) ==
    /\ app = "api"
    /\ \E variant \in variants, size \in sizes, typed \in PriceInputs :
          LET r == Api_handlePriceUpdate(storedPrices, currentPrices, variant, size,
                                         OrZero(typed))
          IN  /\ storedPrices' = r.storedPrices
              /\ currentPrices' = r.currentPrices
    /\ UNCHANGED <<sessionVars, materialVars, filterVars, ledgerDbVars,
                   app, loaded, orders, dbOrders, payments,
                   incomeEntries, expenseEntries, nextId>>

Dash_handleSubmitOf(names, variants, typings, maxOrders, maxId) ==
    /\ app = "dashboard"
    /\ \E customerName \in names, deliveryDate \in DeliveryDates,
          priceType \in variants, typed \in typings :
          LET data == Dash_orderData(storedPrices, customerName, deliveryDate,
                                     PackagesOf(app, typed), priceType)
          IN  IF data = <<>>
              THEN UNCHANGED <<orders, nextId>>
              ELSE /\ Len(orders) < maxOrders
                   /\ nextId <= maxId
                   /\ orders' = AddOrder(orders, data[1], nextId)
                   /\ nextId' = nextId + 1
    /\ UNCHANGED <<sessionVars, materialVars, filterVars, ledgerDbVars,
                   app, storedPrices, currentPrices, loaded, dbOrders, payments,
                   incomeEntries, expenseEntries>>

Trk_handleOrderSubmitOf(names, variants, typings, maxOrders, maxId) ==
    /\ app = "tracker"
    /\ loaded
    /\ \E customerName \in names, priceType \in variants,
          typed \in typings :
          LET data == Trk_orderData(storedPrices, customerName, "2025-01-01",
                                    PackagesOf(app, typed), priceType)
          IN  IF data = <<>>
              THEN UNCHANGED <<orders, nextId, currentPrices>>
              ELSE /\ Len(orders) < maxOrders
                   /\ nextId <= maxId
                   /\ orders' = AddOrder(orders, data[1], nextId)
                   /\ nextId' = nextId + 1
                   \* setRefreshKey: the load effect runs again
                   /\ currentPrices' = Trk_getSellingPrices(storedPrices)
    /\ UNCHANGED <<sessionVars, materialVars, filterVars, ledgerDbVars,
                   app, storedPrices, loaded, dbOrders, payments,
                   incomeEntries, expenseEntries>>

\* postUp, getUp: whether the POST reaches the server, and the GET of the fallback
Api_handleOrderSubmitOf(names, variants, typings, maxOrders, maxId) ==
    /\ app = "api"
    /\ \E customerName \in names, productVariant \in variants,
          typed \in typings :
          LET data == Api_orderData(currentPrices, customerName, "2025-01-01",
                                    PackagesOf(app, typed), productVariant)
          IN  IF data = <<>>
              THEN UNCHANGED <<orders, dbOrders, nextId, loaded>>
              ELSE /\ nextId <= maxId
                   /\ nextId' = nextId + 1
                   /\ loaded' = FALSE
                   /\ \E postUp \in BOOLEAN, getUp \in BOOLEAN :
                        LET response ==
                                IF postUp
                                THEN createOrder(Api_orderBody(data[1], nextId), nextId)
                                ELSE [status |-> 0]
                            base == Api_getOrders(getUp, dbOrders, orders)
                        IN  IF response.status = 201
                            THEN /\ Len(dbOrders) < maxOrders
                                 /\ dbOrders' = Append(dbOrders, response.order)
                                 /\ UNCHANGED orders
                            ELSE /\ Len(base) < maxOrders
                                 /\ orders' = AddOrder(base, data[1], nextId)
                                 /\ UNCHANGED dbOrders
    /\ UNCHANGED <<sessionVars, materialVars, filterVars, ledgerDbVars,
                   app, storedPrices, currentPrices, payments,
                   incomeEntries, expenseEntries>>

Dash_savePriceClick == Dash_savePriceClickOf(EditVariants(app), EditSizes)

Trk_priceInputChange == Trk_priceInputChangeOf(EditVariants(app), EditSizes)

Api_priceInputChange == Api_priceInputChangeOf(EditVariants(app), EditSizes)

Dash_handleSubmit ==
    Dash_handleSubmitOf(CustomerNames, EditVariants(app), Typings(app),
                        MaxOrders, MaxId)

Trk_handleOrderSubmit ==
    Trk_handleOrderSubmitOf(CustomerNames, EditVariants(app), Typings(app),
                            MaxOrders, MaxId)

Api_handleOrderSubmit ==
    Api_handleOrderSubmitOf(CustomerNames, EditVariants(app), Typings(app),
                            MaxOrders, MaxId)

Dash_handleDeleteOrder ==
    /\ app = "dashboard"
    /\ \E i \in 1..Len(orders) : orders' = DeleteOrder(orders, orders[i].id)
    /\ UNCHANGED <<sessionVars, materialVars, filterVars, ledgerDbVars,
                   app, storedPrices, currentPrices, loaded, dbOrders, payments,
                   incomeEntries, expenseEntries, nextId>>

Trk_deleteOrderClick ==
    /\ app = "tracker"
    /\ loaded
    /\ \E i \in 1..Len(orders) : orders' = DeleteOrder(orders, orders[i].id)
    /\ currentPrices' = Trk_getSellingPrices(storedPrices)
    /\ UNCHANGED <<sessionVars, materialVars, filterVars, ledgerDbVars,
                   app, storedPrices, loaded, dbOrders, payments,
                   incomeEntries, expenseEntries, nextId>>

\* the status Badge of a listed order
Trk_statusBadgeClick ==
    /\ app = "tracker"
    /\ loaded
    /\ \E i \in 1..Len(orders) :
          orders' = Trk_updateOrderStatus(orders, orders[i].id,
                                          OtherStatus(orders[i].status))
    /\ currentPrices' = Trk_getSellingPrices(storedPrices)
    /\ UNCHANGED <<sessionVars, materialVars, filterVars, ledgerDbVars,
                   app, storedPrices, loaded, dbOrders, payments,
                   incomeEntries, expenseEntries, nextId>>

\* api copy: the Badge of an order listed from localStorage by the last load;
\* putUp, getUp: whether the PUT and the GET of the fallback reach the server
Api_statusBadgeClick ==
    /\ app = "api"
    /\ \E i \in 1..Len(orders), putUp \in BOOLEAN, getUp \in BOOLEAN :
          LET r == Api_updateOrderStatus(putUp, getUp, dbOrders, orders,
                       orders[i].id, OtherStatus(orders[i].status))
          IN  /\ orders' = r.local
              /\ dbOrders' = r.db
    /\ loaded' = FALSE
    /\ UNCHANGED <<sessionVars, materialVars, filterVars, ledgerDbVars,
                   app, storedPrices, currentPrices, payments,
                   incomeEntries, expenseEntries, nextId>>

\* api copy: the delete button of an order listed from localStorage
Api_deleteOrderClick ==
    /\ app = "api"
    /\ \E i \in 1..Len(orders), deleteUp \in BOOLEAN, getUp \in BOOLEAN :
          LET r == Api_deleteOrder(deleteUp, getUp, dbOrders, orders, orders[i].id)
          IN  /\ orders' = r.local
              /\ dbOrders' = r.db
    /\ loaded' = FALSE
    /\ UNCHANGED <<sessionVars, materialVars, filterVars, ledgerDbVars,
                   app, storedPrices, currentPrices, payments,
                   incomeEntries, expenseEntries, nextId>>

Next ==
    \/ Api_deleteOrderClick
    \/ Trk_statusBadgeClick
    \/ Api_statusBadgeClick
    \/ Trk_loadData
    \/ Api_loadData
    \/ Dash_savePriceClick
    \/ Trk_priceInputChange
    \/ Api_priceInputChange
    \/ Dash_handleSubmit
    \/ Trk_handleOrderSubmit
    \/ Api_handleOrderSubmit
    \/ Dash_handleDeleteOrder
    \/ Trk_deleteOrderClick

Spec == Init /\ [][Next]_vars

----------------------------------------------------------------------------
(* The order book: the same handlers with one more order kept at a time and *)
(* the forms fed from fewer names, variants and prices                      *)

BookNames == {"", "Asha"}

BookVariants == {VariantList(app)[1]}

BookSizes == {PACKET_SIZES[1]}

NextBook ==
    \/ Trk_loadData
    \/ Api_loadData
    \/ Dash_savePriceClickOf(BookVariants, BookSizes)
    \/ Trk_priceInputChangeOf(BookVariants, BookSizes)
    \/ Api_priceInputChangeOf(BookVariants, BookSizes)
    \/ Dash_handleSubmitOf(BookNames, BookVariants, Typings(app),
                           MaxOrders + 1, MaxId + 1)
    \/ Trk_handleOrderSubmitOf(BookNames, BookVariants, Typings(app),
                               MaxOrders + 1, MaxId + 1)
    \/ Api_handleOrderSubmitOf(BookNames, BookVariants, Typings(app),
                               MaxOrders + 1, MaxId + 1)
    \/ Dash_handleDeleteOrder
    \/ Trk_deleteOrderClick
    \/ Api_deleteOrderClick
    \/ Trk_statusBadgeClick
    \/ Api_statusBadgeClick

SpecBook == Init /\ [][NextBook]_vars

----------------------------------------------------------------------------
(* Properties of the pricing and order state machine *)

RECURSIVE SeqSum(_)
SeqSum(s) == IF s = <<>> THEN 0 ELSE Head(s) + SeqSum(Tail(s))

\* the sum of f[x] over the finite set S
RECURSIVE SetSum(_, _)
SetSum(S, f) ==
    IF S = {} THEN 0
    ELSE LET x == CHOOSE y \in S : TRUE IN f[x] + SetSum(S \ {x}, f)

\* all selections over the given sizes with quantities 0..maxQty
Selections(sizes, maxQty) == UNION {[S -> 0..maxQty] : S \in SUBSET sizes}

\* the summary the running copy computes in the current state
SummaryNow(packages, variant) ==
    IF app = "dashboard" THEN Dash_calculateSummary(storedPrices, packages, variant)
    ELSE IF app = "tracker"
         THEN Trk_calculateOrderSummary(storedPrices, packages, variant)
    ELSE Api_calculateOrderSummary(currentPrices, packages, variant)

\* the table the running copy resolves prices from
TableNow ==
    IF app = "dashboard" THEN Dash_getSellingPrices(storedPrices)
    ELSE IF app = "tracker" THEN Trk_getSellingPrices(storedPrices)
    ELSE currentPrices

\* the unit price the summary of the running copy takes
SummaryPriceNow(variant, size) ==
    IF app = "dashboard"
    THEN Dash_pricePerPacket(Dash_selectedPrices(TableNow, variant), variant, size)
    ELSE IF app = "tracker"
         THEN Trk_pricePerPacket(Trk_selectedPrices(TableNow, variant), variant, size)
    ELSE Api_summaryPricePerPacket(Api_summarySelectedPrices(TableNow, variant),
                                   variant, size)

\* the unit price the submit handler of the running copy puts in a line item
ItemPriceNow(variant, size) ==
    IF app = "api"
    THEN Api_submitPricePerPacket(Api_submitSelectedPrices(TableNow, variant), size)
    ELSE SummaryPriceNow(variant, size)

\* the variants a summary can be asked for in the running copy
AskedVariants ==
    IF app = "api" THEN PRODUCT_VARIANTS \cup {UndefinedVariant} ELSE PriceTypes

TotalsMatch(o) ==
    /\ o.totalWeight = SeqSum([k \in 1..Len(o.packages) |-> o.packages[k].weight])
    /\ o.totalAmount = SeqSum([k \in 1..Len(o.packages) |-> o.packages[k].amount])

\* C1: in every reachable state every stored order has totalWeight equal to
\* the sum of the weights of its line items and totalAmount equal to the sum
\* of their amounts.
C1_TotalsEqualLineItemSums ==
    /\ \A i \in 1..Len(orders) : TotalsMatch(orders[i])
    /\ \A i \in 1..Len(dbOrders) : TotalsMatch(dbOrders[i])

\* the three-tier price of the pricing-table contract: the stored override,
\* else the built-in default entry, else size x constant of the coarse category
ThreeTierPrice(overrides, defaults, variant, size, linear) ==
    IF variant \in DOMAIN overrides /\ size \in DOMAIN overrides[variant]
    THEN overrides[variant][size]
    ELSE IF variant \in DOMAIN defaults /\ size \in DOMAIN defaults[variant]
         THEN defaults[variant][size]
    ELSE linear

\* the stored overrides of the dashboard and the tracker: none when nothing
\* was saved
StoredOverrides == IF storedPrices = <<>> THEN EmptyObj ELSE storedPrices[1]

\* the built-in default table of the running copy
DefaultsNow ==
    IF app = "dashboard" THEN Dash_defaultPrices
    ELSE IF app = "tracker" THEN Trk_defaultPrices
    ELSE Api_defaultPrices

\* the sizes and quantities the summary properties range over
SummarySizes == {PACKET_SIZES[i] : i \in 1..(NumSizes + 1)}

SummarySelections == Selections(SummarySizes, MaxQty + 1)

QtyIn(packages, size) == IF size \in DOMAIN packages THEN packages[size] ELSE 0

\* C2: for every selection and price type the dashboard summary returns
\* totalWeight = sum over the five packet sizes of size*qty, totalPackets =
\* sum of qty and totalAmount = sum of getPrice(priceType,size)*qty, with qty 0
\* for an absent size; {100:2, 250:1} at retail {100:25, 250:70} gives
\* 450, 3, 120.
C2_SummaryIsSumOverSizes ==
    app = "dashboard" =>
      /\ \A priceType \in PriceTypes, packages \in SummarySelections :
            Dash_calculateSummary(storedPrices, packages, priceType) =
              [totalWeight  |-> SetSum(SizeSet,
                                  [z \in SizeSet |-> z * QtyIn(packages, z)]),
               totalPackets |-> SetSum(SizeSet,
                                  [z \in SizeSet |-> QtyIn(packages, z)]),
               totalAmount  |-> SetSum(SizeSet,
                                  [z \in SizeSet |->
                                     ThreeTierPrice(StoredOverrides, Dash_defaultPrices,
                                         priceType, z,
                                         Dash_fallbackPrice(priceType, z))
                                     * QtyIn(packages, z)])]
      /\ ( /\ ThreeTierPrice(StoredOverrides, Dash_defaultPrices, "retail", 100, 0) = Rs(25)
           /\ ThreeTierPrice(StoredOverrides, Dash_defaultPrices, "retail", 250, 0) = Rs(70) )
         => Dash_calculateSummary(storedPrices, (100 :> 2 @@ 250 :> 1), "retail") =
              [totalWeight |-> 450, totalPackets |-> 3, totalAmount |-> Rs(120)]

\* a dashboard order summed at a price saved through the pricing section
C2_Witness ==
    /\ app = "dashboard"
    /\ storedPrices /= <<>>
    /\ storedPrices[1]["retail"][50] = 1
    /\ \E i \in 1..Len(orders) :
          /\ orders[i].priceType = "retail"
          /\ orders[i].totalWeight = 150
          /\ orders[i].totalAmount = 1 + Rs(25)

\* the selections without a packet: no key, or quantity 0 under every key
ZeroSelections == Selections(SizeSet, 0)

\* C3: for every variant or price type and every pricing-store state, the
\* summary of an empty selection or of a selection with all quantities 0 is
\* exactly {totalWeight: 0, totalPackets: 0, totalAmount: 0}.
C3_EmptySelectionSumsToZero ==
    \A variant \in AskedVariants, packages \in ZeroSelections :
        SummaryNow(packages, variant) = ZeroSummary

\* the tracker after a price was set to 0, asked for an all-zero selection
C3_Witness ==
    /\ app = "tracker"
    /\ storedPrices /= <<>>
    /\ storedPrices[1]["retail"][50] = 0
    /\ SummaryNow((50 :> 0 @@ 100 :> 0), "retail") = ZeroSummary

\* C4: the order summary is a function of the selection and the variant
\* alone: no step of the application changes the result of a call with the
\* same inputs.
C4_SummaryDependsOnInputsOnly ==
    [][\A variant \in AskedVariants, packages \in Selections(EditSizes, 1) :
          SummaryNow(packages, variant)' = SummaryNow(packages, variant)]_vars

\* C5: the unit price of (variant, size) is the stored override if present,
\* else the default-table entry, else size x constant; an unknown variant
\* without stored or default entry gets the linear price.
C5_ThreeTierResolution ==
    \A variant \in AskedVariants, size \in SizeSet :
        SummaryPriceNow(variant, size)[1] =
            IF app = "api"
            THEN ThreeTierPrice(currentPrices, Api_defaultPrices, variant, size,
                                Dash_fallbackPrice(variant, size))
            ELSE ThreeTierPrice(StoredOverrides, DefaultsNow, variant, size,
                                Dash_fallbackPrice(variant, size))

\* C6: for every variant and packet size, in every reachable pricing-store
\* state, the resolved unit price is a defined number >= 0.
C6_PriceDefinedAndNonNegative ==
    \A variant \in VariantsOf(app) \cup {UndefinedVariant}, size \in SizeSet :
        \A price \in {SummaryPriceNow(variant, size), ItemPriceNow(variant, size)} :
            /\ price /= <<>>
            /\ price[1] \in Int
            /\ price[1] >= 0

\* the api copy resolving prices from a table that holds a single price of 0
C6_Witness ==
    /\ app = "api"
    /\ currentPrices = ("sada" :> (50 :> 0))
    /\ SummaryPriceNow("sada", 50) = <<Rs(15)>>
    /\ ItemPriceNow("sada", 100) = <<0>>
    /\ SummaryPriceNow(UndefinedVariant, 100) = <<0>>

NoEntry(table, variant, size) ==
    variant \notin DOMAIN table \/ size \notin DOMAIN table[variant]

\* C7: whenever the pricing table has no entry for (variant, size), the unit
\* price of the summary and of the created line items is a default > 0.
C7_AbsentEntryGetsPositiveDefault ==
    \A variant \in VariantsOf(app), size \in SizeSet :
        NoEntry(TableNow, variant, size) =>
            /\ SummaryPriceNow(variant, size)[1] > 0
            /\ ItemPriceNow(variant, size)[1] > 0

\* the entry of a pricing table, <<>> when there is none
Entry(table, variant, size) ==
    IF variant \in DOMAIN table THEN Lookup(table[variant], size) ELSE <<>>

\* what the price-update handler of the running copy leaves
PriceUpdateNow(variant, size, newPrice) ==
    IF app = "dashboard"
    THEN Dash_savePrice(storedPrices, currentPrices, variant, size, <<newPrice>>)
    ELSE IF app = "tracker"
         THEN Trk_handlePriceUpdate(storedPrices, currentPrices, variant, size,
                                    newPrice)
    ELSE Api_handlePriceUpdate(storedPrices, currentPrices, variant, size, newPrice)

\* the persisted table as the running copy reads it back
PersistedTable(stored) ==
    IF app = "dashboard" THEN Dash_getSellingPrices(stored)
    ELSE IF app = "tracker" THEN Trk_getSellingPrices(stored)
    ELSE Api_getSellingPrices(stored)

OnlyEntryChanged(before, after, variant, size, newPrice) ==
    \A v \in VariantsOf(app), z \in SizeSet :
        Entry(after, v, z) =
            IF v = variant /\ z = size THEN <<newPrice>> ELSE Entry(before, v, z)

\* C8: a price update with a negative price leaves the pricing table, in
\* memory and persisted, unchanged and raises no error; an update with a
\* non-negative price overwrites exactly the (variant, size) entry and leaves
\* every other entry of the table unchanged.
C8_PriceUpdate ==
    (app = "tracker" => loaded) =>
    \A variant \in EditVariants(app), size \in EditSizes, newPrice \in -1..MaxPrice :
        LET r == PriceUpdateNow(variant, size, newPrice)
        IN  IF newPrice < 0
            THEN /\ r.storedPrices = storedPrices
                 /\ r.currentPrices = currentPrices
                 /\ ~r.showError
            ELSE /\ OnlyEntryChanged(currentPrices, r.currentPrices,
                                     variant, size, newPrice)
                 /\ OnlyEntryChanged(PersistedTable(storedPrices),
                                     PersistedTable(r.storedPrices),
                                     variant, size, newPrice)

----------------------------------------------------------------------------
(* Income and expense ledger of the payment tracker *)

\* entries.reduce((sum, entry) => sum + entry.amount, 0)
RECURSIVE SumAmounts(_)
SumAmounts(entries) ==
    IF entries = <<>> THEN 0 ELSE Head(entries).amount + SumAmounts(Tail(entries))

Trk_totalIncome(income) == SumAmounts(income)

\* the business expenses summed without the isExtra filter; C9 tells it from
\* Trk_totalExpense
Trk_totalExpense_Unfiltered(expenses) == SumAmounts(expenses)

Trk_totalExpense(expenses) ==
    SumAmounts(SelectSeq(expenses, LAMBDA entry : ~entry.isExtra))

Trk_extraExpense(expenses) ==
    SumAmounts(SelectSeq(expenses, LAMBDA entry : entry.isExtra))

Trk_profit(income, expenses) == Trk_totalIncome(income) - Trk_totalExpense(expenses)

addIncomeEntry(entries, entry, id) ==
    Append(entries, entry @@ [id |-> id, createdAt |-> id])

deleteIncomeEntry(entries, id) == SelectSeq(entries, LAMBDA entry : entry.id /= id)

addExpenseEntry(entries, entry, id) ==
    Append(entries, entry @@ [id |-> id, createdAt |-> id])

deleteExpenseEntry(entries, id) == SelectSeq(entries, LAMBDA entry : entry.id /= id)

\* entries.find(e => e.id === id) flipped in place
\* a toggle that flips every stored expense once the id is found; C28 tells
\* it from toggleExpenseExtra
toggleExpenseExtra_FlipsAll(entries, id) ==
    IF \E i \in 1..Len(entries) : entries[i].id = id
    THEN [i \in 1..Len(entries) |-> [entries[i] EXCEPT !.isExtra = ~@]]
    ELSE entries

toggleExpenseExtra(entries, id) ==
    LET hits == {i \in 1..Len(entries) : entries[i].id = id}
    IN  IF hits = {} THEN entries
        ELSE LET first == CHOOSE i \in hits : \A j \in hits : i <= j
             IN  [entries EXCEPT ![first].isExtra = ~@]

\* the amount inputs: empty, or a number not under the input's min="0"
AmountInputs == {<<>>} \cup {<<a>> : a \in 0..MaxAmount}

ItemNames == {"", "Oil"}

\* handleIncomeSubmit: the entry handed to addIncomeEntry, <<>> when rejected
Trk_incomeEntry(customerName, amount) ==
    IF Trim(customerName) = "" \/ amount = <<>> THEN <<>>
    ELSE <<[customerName |-> Trim(customerName), amount |-> amount[1]]>>

\* handleExpenseSubmit: the entry handed to addExpenseEntry, <<>> when rejected
Trk_expenseEntry(item, amount, isExtra) ==
    IF Trim(item) = "" \/ amount = <<>> THEN <<>>
    ELSE <<[item |-> Trim(item), amount |-> amount[1], isExtra |-> isExtra]>>

\* api copy, handleIncomeSubmit: isNaN(amountValue) || amountValue <= 0 as well
Api_incomeEntry(customerName, amount) ==
    IF Trim(customerName) = "" \/ amount = <<>> THEN <<>>
    ELSE IF amount[1] <= 0 THEN <<>>
    ELSE <<[customerName |-> Trim(customerName), amount |-> amount[1]]>>

\* api copy, handleExpenseSubmit
Api_expenseEntry(item, amount, isExtra) ==
    IF Trim(item) = "" \/ amount = <<>> THEN <<>>
    ELSE IF amount[1] <= 0 THEN <<>>
    ELSE <<[item |-> Trim(item), amount |-> amount[1], isExtra |-> isExtra]>>

InitLedger ==
    /\ app = "tracker"
    /\ storedPrices = <<>>
    /\ currentPrices = Trk_getSellingPrices(<<>>)
    /\ loaded = TRUE
    /\ orders = <<>>
    /\ dbOrders = <<>>
    /\ payments = <<>>
    /\ incomeEntries = <<>>
    /\ expenseEntries = <<>>
    /\ nextId = 1
    /\ InitMaterials
    /\ InitFilters
    /\ InitLedgerDb
    /\ InitSession

\* remarks: form.remarks.trim() || undefined, a field JSON.stringify drops
\* when it is undefined
RemarksField(remarks) ==
    IF Trim(remarks) = "" THEN EmptyObj ELSE [remarks |-> Trim(remarks)]

Trk_handleIncomeSubmitOf(names, amounts, remarksTyped, maxEntries, maxId) ==
    /\ \E customerName \in names, amount \in amounts, remarks \in remarksTyped :
          LET entry == Trk_incomeEntry(customerName, amount)
          IN  IF entry = <<>>
              THEN UNCHANGED <<incomeEntries, nextId>>
              ELSE /\ Len(incomeEntries) < maxEntries
                   /\ nextId <= maxId
                   /\ incomeEntries' =
                         addIncomeEntry(incomeEntries,
                                        entry[1] @@ RemarksField(remarks), nextId)
                   /\ nextId' = nextId + 1
    /\ UNCHANGED <<sessionVars, materialVars, filterVars, ledgerDbVars,
                   app, storedPrices, currentPrices, loaded, orders, dbOrders,
                   payments, expenseEntries>>

Trk_handleIncomeSubmit ==
    Trk_handleIncomeSubmitOf(CustomerNames, AmountInputs, {""}, MaxEntries,
                             MaxLedgerId)

Trk_handleExpenseSubmitOf(items, amounts, remarksTyped, maxEntries, maxId) ==
    /\ \E item \in items, amount \in amounts, isExtra \in BOOLEAN,
          remarks \in remarksTyped :
          LET entry == Trk_expenseEntry(item, amount, isExtra)
          IN  IF entry = <<>>
              THEN UNCHANGED <<expenseEntries, nextId>>
              ELSE /\ Len(expenseEntries) < maxEntries
                   /\ nextId <= maxId
                   /\ expenseEntries' =
                         addExpenseEntry(expenseEntries,
                                         entry[1] @@ RemarksField(remarks), nextId)
                   /\ nextId' = nextId + 1
    /\ UNCHANGED <<sessionVars, materialVars, filterVars, ledgerDbVars,
                   app, storedPrices, currentPrices, loaded, orders, dbOrders,
                   payments, incomeEntries>>

Trk_handleExpenseSubmit ==
    Trk_handleExpenseSubmitOf(ItemNames, AmountInputs, {""}, MaxEntries,
                              MaxLedgerId)

Trk_deleteIncomeClick ==
    /\ \E i \in 1..Len(incomeEntries) :
          incomeEntries' = deleteIncomeEntry(incomeEntries, incomeEntries[i].id)
    /\ UNCHANGED <<sessionVars, materialVars, filterVars, ledgerDbVars,
                   app, storedPrices, currentPrices, loaded, orders, dbOrders,
                   payments, expenseEntries, nextId>>

Trk_deleteExpenseClick ==
    /\ \E i \in 1..Len(expenseEntries) :
          expenseEntries' = deleteExpenseEntry(expenseEntries, expenseEntries[i].id)
    /\ UNCHANGED <<sessionVars, materialVars, filterVars, ledgerDbVars,
                   app, storedPrices, currentPrices, loaded, orders, dbOrders,
                   payments, incomeEntries, nextId>>

Trk_toggleExtraClick ==
    /\ \E i \in 1..Len(expenseEntries) :
          expenseEntries' = toggleExpenseExtra(expenseEntries, expenseEntries[i].id)
    /\ UNCHANGED <<sessionVars, materialVars, filterVars, ledgerDbVars,
                   app, storedPrices, currentPrices, loaded, orders, dbOrders,
                   payments, incomeEntries, nextId>>

NextLedger ==
    \/ Trk_handleIncomeSubmit
    \/ Trk_handleExpenseSubmit
    \/ Trk_deleteIncomeClick
    \/ Trk_deleteExpenseClick
    \/ Trk_toggleExtraClick

SpecLedger == InitLedger /\ [][NextLedger]_vars

\* the positions of the expenses with the given isExtra flag
ExpensesWith(expenses, flag) ==
    {i \in 1..Len(expenses) : expenses[i].isExtra = flag}

AmountAt(entries) == [i \in 1..Len(entries) |-> entries[i].amount]

\* C9: totalIncome is the sum of all income amounts, totalExpense the sum of
\* the expenses with isExtra false, extraExpense the sum of those with isExtra
\* true and profit = totalIncome - totalExpense; adding, removing or changing
\* the amount of an isExtra expense never changes profit.
C9_TotalsAndProfit ==
    LET profit == Trk_profit(incomeEntries, expenseEntries)
    IN  /\ Trk_totalIncome(incomeEntries) =
              SetSum(1..Len(incomeEntries), AmountAt(incomeEntries))
        /\ Trk_totalExpense(expenseEntries) =
              SetSum(ExpensesWith(expenseEntries, FALSE), AmountAt(expenseEntries))
        /\ Trk_extraExpense(expenseEntries) =
              SetSum(ExpensesWith(expenseEntries, TRUE), AmountAt(expenseEntries))
        /\ profit = SetSum(1..Len(incomeEntries), AmountAt(incomeEntries))
                    - SetSum(ExpensesWith(expenseEntries, FALSE),
                             AmountAt(expenseEntries))
        /\ \A amount \in 0..MaxAmount :
              Trk_profit(incomeEntries,
                  addExpenseEntry(expenseEntries,
                      Trk_expenseEntry("Oil", <<amount>>, TRUE)[1], nextId)) = profit
        /\ \A i \in ExpensesWith(expenseEntries, TRUE) :
              /\ Trk_profit(incomeEntries,
                     deleteExpenseEntry(expenseEntries, expenseEntries[i].id)) = profit
              /\ \A amount \in 0..MaxAmount :
                    Trk_profit(incomeEntries,
                        [expenseEntries EXCEPT ![i].amount = amount]) = profit
        /\ Trk_profit(<<[amount |-> 100]>>,
                      <<[amount |-> 30, isExtra |-> FALSE],
                        [amount |-> 999, isExtra |-> TRUE]>>) = 70

\* a ledger with income, a business expense and an extra expense that all count
C9_Witness ==
    /\ Trk_totalIncome(incomeEntries) = MaxAmount
    /\ Trk_totalExpense(expenseEntries) = 1
    /\ Trk_extraExpense(expenseEntries) = MaxAmount
    /\ Trk_profit(incomeEntries, expenseEntries) = MaxAmount - 1

----------------------------------------------------------------------------
(* Income and expense ledger of the api copy *)

createExpense_fields == {"itemName", "amount", "date", "isExtra"}

expenseSchema_paths == {"item", "amount", "date", "isExtra", "category", "remarks"}

expenseSchema_required == {"item", "amount"}

\* backend createExpense: the response to a request body; date and isExtra
\* get their defaults
createExpense(db, body, id) ==
    LET picked == [k \in DOMAIN body \cap createExpense_fields |-> body[k]]
        doc == [k \in DOMAIN picked \cap expenseSchema_paths |-> picked[k]]
    IN  IF expenseSchema_required \subseteq DOMAIN doc
        THEN [status |-> 201, db |-> Append(db, doc @@ [_id |-> id])]
        ELSE [status |-> 400, db |-> db]

\* backend updateExpense: findByIdAndUpdate(id, body)
updateExpense(db, id, body) ==
    LET hits == {i \in 1..Len(db) : db[i]._id = id}
    IN  IF hits = {} THEN [status |-> 404, db |-> db]
        ELSE LET i == CHOOSE k \in hits : TRUE
             IN  [status |-> 200,
                  db |-> [db EXCEPT ![i] =
                            [f \in DOMAIN @ |->
                               IF f \in DOMAIN body THEN body[f] ELSE @[f]]]]

\* backend deleteExpense: findByIdAndDelete(id)
deleteExpense(db, id) ==
    IF \E i \in 1..Len(db) : db[i]._id = id
    THEN [status |-> 200, db |-> SelectSeq(db, LAMBDA e : e._id /= id)]
    ELSE [status |-> 404, db |-> db]

paymentSchema_required == {"customerName", "amount"}

\* backend createPayment: new Payment(req.body).save(); remarks defaults to ''
createPayment(db, body, id) ==
    IF paymentSchema_required \subseteq DOMAIN body
    THEN [status |-> 201,
          db |-> Append(db, [_id |-> id, customerName |-> body.customerName,
                             amount |-> body.amount,
                             remarks |-> IF "remarks" \in DOMAIN body
                                         THEN body.remarks ELSE ""])]
    ELSE [status |-> 400, db |-> db]

\* backend deletePayment: findByIdAndDelete(id)
deletePayment(db, id) ==
    IF \E i \in 1..Len(db) : db[i]._id = id
    THEN [status |-> 200, db |-> SelectSeq(db, LAMBDA p : p._id /= id)]
    ELSE [status |-> 404, db |-> db]

\* PaymentDataManager.getIncomeEntries: the payments of the API mapped, or
\* localStorage when the GET fails
Api_getIncomeEntries(ok, db, local) ==
    IF ok
    THEN [i \in 1..Len(db) |->
             [id |-> db[i]._id, customerName |-> db[i].customerName,
              amount |-> db[i].amount, remarks |-> db[i].remarks,
              createdAt |-> db[i]._id]]
    ELSE local

\* PaymentDataManager.addIncomeEntry: the POST, and when it fails the list
\* getIncomeEntries gives with the entry pushed, saved to localStorage
Api_addIncomeEntry(postUp, getUp, db, local, entry, id) ==
    LET response == IF postUp
                    THEN createPayment(db, [customerName |-> entry.customerName,
                                            amount |-> entry.amount]
                                           @@ RemarksField(
                                                  IF "remarks" \in DOMAIN entry
                                                  THEN entry.remarks ELSE ""), id)
                    ELSE [status |-> 0, db |-> db]
    IN  IF response.status = 201
        THEN [db |-> response.db, local |-> local]
        ELSE [db |-> db,
              local |-> addIncomeEntry(Api_getIncomeEntries(getUp, db, local),
                                       entry, id)]

\* PaymentDataManager.deleteIncomeEntry
Api_deleteIncomeEntry(deleteUp, getUp, db, local, id) ==
    LET response == IF deleteUp THEN deletePayment(db, id)
                    ELSE [status |-> 0, db |-> db]
    IN  IF response.status = 200
        THEN [db |-> response.db, local |-> local]
        ELSE [db |-> db,
              local |-> deleteIncomeEntry(Api_getIncomeEntries(getUp, db, local), id)]

\* PaymentDataManager.getExpenseEntries
Api_getExpenseEntries(ok, db, local) ==
    IF ok
    THEN [i \in 1..Len(db) |->
             [id |-> db[i]._id, item |-> db[i].item, amount |-> db[i].amount,
              isExtra |-> db[i].isExtra, createdAt |-> db[i]._id]]
    ELSE local

\* PaymentDataManager.addExpenseEntry
Api_addExpenseEntry(postUp, getUp, db, local, entry, id) ==
    LET response == IF postUp
                    THEN createExpense(db, [item |-> entry.item,
                                            amount |-> entry.amount,
                                            date |-> id,
                                            isExtra |-> entry.isExtra], id)
                    ELSE [status |-> 0, db |-> db]
    IN  IF response.status = 201
        THEN [db |-> response.db, local |-> local]
        ELSE [db |-> db,
              local |-> addExpenseEntry(Api_getExpenseEntries(getUp, db, local),
                                        entry, id)]

\* PaymentDataManager.deleteExpenseEntry
Api_deleteExpenseEntry(deleteUp, getUp, db, local, id) ==
    LET response == IF deleteUp THEN deleteExpense(db, id)
                    ELSE [status |-> 0, db |-> db]
    IN  IF response.status = 200
        THEN [db |-> response.db, local |-> local]
        ELSE [db |-> db,
              local |-> deleteExpenseEntry(Api_getExpenseEntries(getUp, db, local), id)]

\* PaymentDataManager.toggleExpenseExtra of the api copy: the entry is looked
\* up in the list getExpenseEntries gives and PUT; when the PUT fails it is
\* looked up again, flipped and the list saved to localStorage.  getUp,
\* putUp, fallbackGetUp: whether each request reaches the server.
Api_toggleExpenseExtra(getUp, putUp, fallbackGetUp, db, local, id) ==
    LET entries == Api_getExpenseEntries(getUp, db, local)
        hits == {i \in 1..Len(entries) : entries[i].id = id}
    IN  IF hits = {} THEN [db |-> db, local |-> local]
        ELSE LET entry == entries[CHOOSE i \in hits : \A j \in hits : i <= j]
                 response == IF putUp
                             THEN updateExpense(db, id, [isExtra |-> ~entry.isExtra])
                             ELSE [status |-> 0, db |-> db]
                 again == Api_getExpenseEntries(fallbackGetUp, db, local)
             IN  IF response.status = 200
                 THEN [db |-> response.db, local |-> local]
                 ELSE IF \E i \in 1..Len(again) : again[i].id = id
                      THEN [db |-> db, local |-> toggleExpenseExtra(again, id)]
                 ELSE [db |-> db, local |-> local]

\* the tracker and the api copy after their first load
InitExpenses ==
    /\ app \in {"tracker", "api"}
    /\ storedPrices = <<>>
    /\ currentPrices = (IF app = "tracker" THEN Trk_getSellingPrices(<<>>)
                        ELSE Api_getSellingPrices(<<>>))
    /\ loaded = TRUE
    /\ orders = <<>>
    /\ dbOrders = <<>>
    /\ payments = <<>>
    /\ incomeEntries = <<>>
    /\ expenseEntries = <<>>
    /\ nextId = 1
    /\ InitMaterials
    /\ InitFilters
    /\ InitLedgerDb
    /\ InitSession

\* the ids of the entries a load of the api copy can list
ListedIds(db, local) ==
    {db[i]._id : i \in 1..Len(db)} \cup {local[i].id : i \in 1..Len(local)}

Api_handleIncomeSubmitOf(names, amounts, remarksTyped, maxEntries, maxId) ==
    /\ app = "api"
    /\ \E customerName \in names, amount \in amounts, remarks \in remarksTyped,
          postUp \in BOOLEAN, getUp \in BOOLEAN :
          LET entry == Api_incomeEntry(customerName, amount)
          IN  IF entry = <<>>
              THEN UNCHANGED <<incomeEntries, dbPayments, nextId, loaded>>
              ELSE /\ Len(incomeEntries) < maxEntries
                   /\ Len(dbPayments) < maxEntries
                   /\ nextId <= maxId
                   /\ LET r == Api_addIncomeEntry(postUp, getUp, dbPayments,
                                   incomeEntries,
                                   entry[1] @@ RemarksField(remarks), nextId)
                      IN  /\ incomeEntries' = r.local
                          /\ dbPayments' = r.db
                   /\ nextId' = nextId + 1
                   /\ loaded' = FALSE
    /\ UNCHANGED <<sessionVars, materialVars, filterVars, dbExpenses,
                   app, storedPrices, currentPrices, orders, dbOrders,
                   payments, expenseEntries>>

Api_handleIncomeSubmit ==
    Api_handleIncomeSubmitOf(CustomerNames, AmountInputs, {""}, MaxEntries,
                             MaxLedgerId)

Api_handleExpenseSubmitOf(items, amounts, remarksTyped, maxEntries, maxId) ==
    /\ app = "api"
    /\ \E item \in items, amount \in amounts, isExtra \in BOOLEAN,
          remarks \in remarksTyped, postUp \in BOOLEAN, getUp \in BOOLEAN :
          LET entry == Api_expenseEntry(item, amount, isExtra)
          IN  IF entry = <<>>
              THEN UNCHANGED <<expenseEntries, dbExpenses, nextId, loaded>>
              ELSE /\ Len(expenseEntries) < maxEntries
                   /\ nextId <= maxId
                   /\ LET r == Api_addExpenseEntry(postUp, getUp, dbExpenses,
                                   expenseEntries,
                                   entry[1] @@ RemarksField(remarks), nextId)
                      IN  /\ expenseEntries' = r.local
                          /\ dbExpenses' = r.db
                   /\ nextId' = nextId + 1
                   /\ loaded' = FALSE
    /\ UNCHANGED <<sessionVars, materialVars, filterVars, dbPayments,
                   app, storedPrices, currentPrices, orders, dbOrders,
                   payments, incomeEntries>>

Api_handleExpenseSubmit ==
    Api_handleExpenseSubmitOf(ItemNames, AmountInputs, {""}, MaxEntries,
                              MaxLedgerId)

Api_deleteIncomeClick ==
    /\ app = "api"
    /\ \E id \in ListedIds(dbPayments, incomeEntries),
          deleteUp \in BOOLEAN, getUp \in BOOLEAN :
          LET r == Api_deleteIncomeEntry(deleteUp, getUp, dbPayments,
                                         incomeEntries, id)
          IN  /\ incomeEntries' = r.local
              /\ dbPayments' = r.db
    /\ loaded' = FALSE
    /\ UNCHANGED <<sessionVars, materialVars, filterVars, dbExpenses,
                   app, storedPrices, currentPrices, orders, dbOrders,
                   payments, expenseEntries, nextId>>

Api_deleteExpenseClick ==
    /\ app = "api"
    /\ \E id \in ListedIds(dbExpenses, expenseEntries),
          deleteUp \in BOOLEAN, getUp \in BOOLEAN :
          LET r == Api_deleteExpenseEntry(deleteUp, getUp, dbExpenses,
                                          expenseEntries, id)
          IN  /\ expenseEntries' = r.local
              /\ dbExpenses' = r.db
    /\ loaded' = FALSE
    /\ UNCHANGED <<sessionVars, materialVars, filterVars, dbPayments,
                   app, storedPrices, currentPrices, orders, dbOrders,
                   payments, incomeEntries, nextId>>

\* the badge of an expense listed by the last load
Api_toggleExtraClick ==
    /\ app = "api"
    /\ \E id \in ListedIds(dbExpenses, expenseEntries),
          getUp \in BOOLEAN, putUp \in BOOLEAN, fallbackGetUp \in BOOLEAN :
          LET r == Api_toggleExpenseExtra(getUp, putUp, fallbackGetUp,
                                          dbExpenses, expenseEntries, id)
          IN  /\ expenseEntries' = r.local
              /\ dbExpenses' = r.db
    /\ loaded' = FALSE
    /\ UNCHANGED <<sessionVars, materialVars, filterVars, dbPayments,
                   app, storedPrices, currentPrices, orders, dbOrders,
                   payments, incomeEntries, nextId>>

NextExpenses ==
    \/ (app = "tracker" /\ Trk_handleIncomeSubmit)
    \/ (app = "tracker" /\ Trk_handleExpenseSubmit)
    \/ (app = "tracker" /\ Trk_deleteIncomeClick)
    \/ (app = "tracker" /\ Trk_deleteExpenseClick)
    \/ (app = "tracker" /\ Trk_toggleExtraClick)
    \/ Api_loadData
    \/ Api_handleIncomeSubmit
    \/ Api_handleExpenseSubmit
    \/ Api_deleteIncomeClick
    \/ Api_deleteExpenseClick
    \/ Api_toggleExtraClick

SpecExpenses == InitExpenses /\ [][NextExpenses]_vars

----------------------------------------------------------------------------
(* Payments of the dashboard *)

\* DataManager.addPayment: {...payment, id, createdAt} pushed on the stored list
addPayment(list, payment, id) ==
    Append(list, payment @@ [id |-> id, createdAt |-> id])

\* the status with >= for >; C10 tells it from PaymentStatusOf
PaymentStatusOf_PaidOnlyWhenOverpaid(pending, totalPaid) ==
    IF pending < 0 THEN "Paid" ELSE IF totalPaid > 0 THEN "Partial" ELSE "Unpaid"

\* pending <= 0 ? 'Paid' : totalPaid > 0 ? 'Partial' : 'Unpaid'
PaymentStatusOf(pending, totalPaid) ==
    IF pending <= 0 THEN "Paid" ELSE IF totalPaid > 0 THEN "Partial" ELSE "Unpaid"

\* BusinessCalculator.getPaymentStatus on the stored payments and orders
getPaymentStatus(paymentList, orderList, orderId) ==
    LET mine == SelectSeq(paymentList, LAMBDA p : p.orderId = orderId)
        totalPaid == SumAmounts(mine)
        found == SelectSeq(orderList, LAMBDA o : o.id = orderId)
        totalAmount == IF found = <<>> THEN 0 ELSE found[1].totalAmount
        pending == totalAmount - totalPaid
    IN  [totalAmount |-> totalAmount,
         totalPaid   |-> totalPaid,
         pending     |-> pending,
         status      |-> PaymentStatusOf(pending, totalPaid)]

\* PaymentForm: the ids of the orders offered in the select, pending > 0
pendingOrders(orderList, paymentList) ==
    {orderList[i].id : i \in {j \in 1..Len(orderList) :
        getPaymentStatus(paymentList, orderList, orderList[j].id).pending > 0}}

\* a handleSubmit that does not compare the amount with the pending amount;
\* C27 tells it from PaymentForm_paymentData
PaymentForm_paymentData_NoPendingCheck(orderList, paymentList, orderId, amount) ==
    IF orderId = <<>> THEN <<>>
    ELSE IF ~Truthy(amount) \/ amount[1] <= 0 THEN <<>>
    ELSE <<[orderId |-> orderId[1], amount |-> amount[1], mode |-> "cash"]>>

\* PaymentForm.handleSubmit: the payment data, <<>> when rejected; orderId is
\* <<>> while nothing is selected, amount is parseFloat of the input
PaymentForm_paymentData(orderList, paymentList, orderId, amount) ==
    IF orderId = <<>> THEN <<>>
    ELSE IF ~Truthy(amount) \/ amount[1] <= 0 THEN <<>>
    ELSE IF /\ orderId[1] \in pendingOrders(orderList, paymentList)
            /\ amount[1] >
                 getPaymentStatus(paymentList, orderList, orderId[1]).pending
         THEN <<>>
    ELSE <<[orderId |-> orderId[1], amount |-> amount[1], mode |-> "cash"]>>

\* what the amount field can hold for the selected order: typed, or the
\* pending amount handleOrderChange fills in, or one more than that
PaymentAmountInputs(orderList, paymentList, orderId) ==
    AmountInputs \cup
    (IF orderId = <<>> THEN {}
     ELSE LET pending ==
                  getPaymentStatus(paymentList, orderList, orderId[1]).pending
          IN  {<<pending>>, <<pending + 1>>})

InitPayments ==
    /\ app = "dashboard"
    /\ storedPrices = <<>>
    /\ currentPrices = Dash_getSellingPrices(<<>>)
    /\ loaded = TRUE
    /\ orders = <<>>
    /\ dbOrders = <<>>
    /\ payments = <<>>
    /\ incomeEntries = <<>>
    /\ expenseEntries = <<>>
    /\ nextId = 1
    /\ InitMaterials
    /\ InitFilters
    /\ InitLedgerDb
    /\ InitSession

PaymentForm_handleSubmit ==
    /\ \E orderId \in {<<>>} \cup {<<id>> : id \in pendingOrders(orders, payments)} :
          \E amount \in PaymentAmountInputs(orders, payments, orderId) :
              LET data == PaymentForm_paymentData(orders, payments, orderId, amount)
              IN  IF data = <<>>
                  THEN UNCHANGED payments
                  ELSE /\ Len(payments) < MaxPayments
                       /\ payments' = addPayment(payments, data[1], Len(payments) + 1)
    /\ UNCHANGED <<sessionVars, materialVars, filterVars, ledgerDbVars,
                   app, storedPrices, currentPrices, loaded, orders, dbOrders,
                   incomeEntries, expenseEntries, nextId>>

\* the button is rendered for the orders with pending > 0; the confirm is accepted
handleQuickPayment ==
    /\ Len(payments) < MaxPayments
    /\ \E orderId \in pendingOrders(orders, payments) :
          payments' = addPayment(payments,
              [orderId |-> orderId,
               amount  |-> getPaymentStatus(payments, orders, orderId).pending,
               mode    |-> "cash"],
              Len(payments) + 1)
    /\ UNCHANGED <<sessionVars, materialVars, filterVars, ledgerDbVars,
                   app, storedPrices, currentPrices, loaded, orders, dbOrders,
                   incomeEntries, expenseEntries, nextId>>

NextPayments ==
    \/ Dash_handleSubmit
    \/ Dash_handleDeleteOrder
    \/ PaymentForm_handleSubmit
    \/ handleQuickPayment

SpecPayments == InitPayments /\ [][NextPayments]_vars

\* the positions of the payments recorded for an order
PaymentsOf(orderId) == {k \in 1..Len(payments) : payments[k].orderId = orderId}

PaidFor(orderId) == SetSum(PaymentsOf(orderId), AmountAt(payments))

\* C10: for every stored order getPaymentStatus returns totalPaid = the sum
\* of the amounts of the payments with that orderId, pending = totalAmount -
\* totalPaid and status Paid when pending <= 0, else Partial when totalPaid >
\* 0, else Unpaid; for totalAmount 500, paid 500 / 200 / 0 give Paid /
\* Partial / Unpaid.
C10_PaymentStatus ==
    /\ \A i \in 1..Len(orders) :
          LET o == orders[i]
              s == getPaymentStatus(payments, orders, o.id)
          IN  /\ s.totalPaid = PaidFor(o.id)
              /\ s.pending = o.totalAmount - PaidFor(o.id)
              /\ s.status = IF o.totalAmount - PaidFor(o.id) <= 0 THEN "Paid"
                            ELSE IF PaidFor(o.id) > 0 THEN "Partial"
                            ELSE "Unpaid"
    /\ \A paid \in {0, 200, 500} :
          getPaymentStatus(IF paid = 0 THEN <<>>
                           ELSE <<[orderId |-> 7, amount |-> paid]>>,
                           <<[id |-> 7, totalAmount |-> 500]>>, 7).status =
              IF paid = 500 THEN "Paid" ELSE IF paid = 200 THEN "Partial" ELSE "Unpaid"

\* an order paid in part, after an earlier order with a payment of its own
\* was deleted
C10_Witness ==
    /\ Len(orders) = 1
    /\ orders[1].id = 2
    /\ PaymentsOf(1) /= {}
    /\ PaymentsOf(2) /= {}
    /\ getPaymentStatus(payments, orders, 2).status = "Partial"

----------------------------------------------------------------------------
(* Properties of order validation, status and line items *)

\* what the submit handler of the running copy makes of a filled-in form
OrderDataNow(customerName, packages, variant) ==
    IF app = "dashboard"
    THEN Dash_orderData(storedPrices, customerName, "2025-01-01", packages, variant)
    ELSE IF app = "tracker"
         THEN Trk_orderData(storedPrices, customerName, "2025-01-01", packages,
                            variant)
    ELSE Api_orderData(currentPrices, customerName, "2025-01-01", packages, variant)

\* no packet size with quantity >= 1
ZeroQuantity(packages) == \A size \in DOMAIN packages : packages[size] < 1

StoredOrders ==
    {orders[i] : i \in 1..Len(orders)} \cup {dbOrders[i] : i \in 1..Len(dbOrders)}

\* C11: a form with an empty or whitespace-only customer name, or with no
\* packet size of quantity >= 1, is rejected; every stored order has a
\* non-empty customerName and a package line item with quantity >= 1.
C11_InvalidOrdersRejected ==
    /\ \A customerName \in CustomerNames, variant \in EditVariants(app),
          typed \in Typings(app) :
          (customerName \in {"", " "} \/ ZeroQuantity(PackagesOf(app, typed)))
              => OrderDataNow(customerName, PackagesOf(app, typed), variant) = <<>>
    /\ \A o \in StoredOrders :
          /\ o.customerName \notin {"", " "}
          /\ \E k \in 1..Len(o.packages) : o.packages[k].quantity >= 1

\* a stored order of the tracker, while the form with a blank name or without
\* packets is turned down
C11_Witness ==
    /\ app = "tracker"
    /\ Len(orders) = 1
    /\ orders[1].customerName = "Asha"
    /\ Len(orders[1].packages) = 2
    /\ OrderDataNow(" ", (50 :> 1), "retail") = <<>>
    /\ OrderDataNow("Asha", (50 :> 0), "retail") = <<>>

\* the stored list after the status Badge of the order with this id is
\* clicked, for each outcome of the requests the click makes
ToggleOutcomes(list, id, status) ==
    IF app = "tracker"
    THEN {Trk_updateOrderStatus(list, id, OtherStatus(status))}
    ELSE {Api_updateOrderStatus(putUp, getUp, dbOrders, list, id,
                                OtherStatus(status)).local :
             putUp \in BOOLEAN, getUp \in BOOLEAN}

StatusOf(list, id) ==
    {list[i].status : i \in {k \in 1..Len(list) : list[k].id = id}}

\* the order list with the status of one order flipped and nothing else changed
Flipped(list, id) ==
    [i \in 1..Len(list) |->
        IF list[i].id = id
        THEN [list[i] EXCEPT !.status =
                 IF @ = "pending" THEN "completed" ELSE "pending"]
        ELSE list[i]]

\* C13: orders are created 'pending' and every stored order is 'pending' or
\* 'completed'; the toggle is enabled in both states and turns each into the
\* other, two toggles restoring the original; no step other than the toggle
\* changes the status of an order.
C13_StatusToggle ==
    /\ [](/\ \A o \in StoredOrders : o.status \in {"pending", "completed"}
          /\ \A customerName \in CustomerNames, variant \in EditVariants(app),
                typed \in Typings(app) :
                LET data == OrderDataNow(customerName, PackagesOf(app, typed),
                                         variant)
                IN  data /= <<>> => data[1].status = "pending"
          /\ app \in {"tracker", "api"} /\ (app = "tracker" => loaded) =>
                \A i \in 1..Len(orders) :
                   \A once \in ToggleOutcomes(orders, orders[i].id,
                                              orders[i].status) :
                      /\ once = Flipped(orders, orders[i].id)
                      /\ \A twice \in ToggleOutcomes(once, orders[i].id,
                                         OtherStatus(orders[i].status)) :
                            twice = orders)
    /\ [][\A i \in 1..Len(orders), k \in 1..Len(orders') :
             (orders[i].id = orders'[k].id /\ orders[i].status /= orders'[k].status)
                 => orders' = Flipped(orders, orders[i].id)]_vars

----------------------------------------------------------------------------
(* Properties of the ledger entries *)

\* the parts of an order that are fixed at creation
Fixed(o) == <<o.packages, o.totalWeight, o.totalAmount>>

SameFixedParts(before, after) ==
    \A i \in 1..Len(before), k \in 1..Len(after) :
        before[i].id = after[k].id => Fixed(before[i]) = Fixed(after[k])

\* C14: each line item of a created order has weight = size*quantity and
\* amount = unitPrice*quantity for the unit price resolved when it is
\* created, and no step changes the line items, totalWeight or totalAmount of
\* an order that exists before and after it.
C14_LineItemsFixed ==
    /\ [](\A customerName \in BookNames, variant \in BookVariants,
             typed \in Typings(app) :
             LET data == OrderDataNow(customerName, PackagesOf(app, typed), variant)
             IN  data /= <<>> =>
                   \A k \in 1..Len(data[1].packages) :
                      LET item == data[1].packages[k]
                      IN  /\ item.weight = item.size * item.quantity
                          /\ item.amount =
                               ItemPriceNow(variant, item.size)[1] * item.quantity)
    /\ [][SameFixedParts(orders, orders') /\ SameFixedParts(dbOrders, dbOrders')]_vars

\* the first order of the tracker, completed and kept as it was priced, after
\* a second order was created and deleted and the price of its size changed
C14_Witness ==
    /\ app = "tracker"
    /\ nextId = 3
    /\ Len(orders) = 1
    /\ orders[1].id = 1
    /\ orders[1].status = "completed"
    /\ orders[1].packages[1].size = 50
    /\ orders[1].packages[1].amount = Rs(15)
    /\ SummaryPriceNow("retail", 50) = <<1>>

\* an amount field that holds no number, zero or a negative number
BadAmount(amount) == amount = <<>> \/ amount[1] <= 0

\* C12: an income or expense form whose amount is non-numeric, zero or
\* negative is rejected, and every stored IncomeEntry and ExpenseEntry has
\* amount > 0.
C12_AmountsPositive ==
    /\ \A name \in CustomerNames \cup ItemNames, amount \in AmountInputs,
          isExtra \in BOOLEAN :
          BadAmount(amount) =>
              /\ Trk_incomeEntry(name, amount) = <<>>
              /\ Trk_expenseEntry(name, amount, isExtra) = <<>>
              /\ Api_incomeEntry(name, amount) = <<>>
              /\ Api_expenseEntry(name, amount, isExtra) = <<>>
    /\ \A i \in 1..Len(incomeEntries) : incomeEntries[i].amount > 0
    /\ \A i \in 1..Len(expenseEntries) : expenseEntries[i].amount > 0

----------------------------------------------------------------------------
(* Materials of the dashboard: the state machine *)

\* parseFloat of what is typed into the stock input (tenths), <<>> for NaN
StockInputs == {<<>>} \cup {<<q>> : q \in -1..MaxStock}

\* parseFloat of what is typed into the material price input
MaterialPriceInputs == {<<>>} \cup {<<p>> : p \in -1..MaxMaterialPrice}

\* parseFloat of what is typed into the batch size field (tenths of a kg)
BatchInputs == {<<>>, <<0>>, <<51>>}

\* the order form of the materials state machine: the first quantity input
\* typed into or not
UsageTypings == {typed \in Typings("dashboard") :
                    /\ typed[1] \in {<<>>, <<MaxQty>>}
                    /\ \A i \in 2..NumSizes : typed[i] = <<>>}

\* the first render of the dashboard: the mount effect has not run yet
InitMaterialsSpec ==
    /\ app = "dashboard"
    /\ storedPrices = <<>>
    /\ currentPrices = Dash_getSellingPrices(<<>>)
    /\ loaded = TRUE
    /\ orders = <<>>
    /\ dbOrders = <<>>
    /\ payments = <<>>
    /\ incomeEntries = <<>>
    /\ expenseEntries = <<>>
    /\ nextId = 1
    /\ materials = <<>>
    /\ usageList = <<>>
    /\ batchSize = <<>>
    /\ InitFilters
    /\ InitLedgerDb
    /\ InitSession

\* the mount effect: initializeDefaultData (every stored order has a
\* priceType, so the migration saves nothing)
Dash_initializeDefaultData ==
    /\ app = "dashboard"
    /\ Len(materials) = 0
    /\ materials' = DefaultMaterials
    /\ UNCHANGED <<sessionVars, filterVars, ledgerDbVars, usageList, batchSize,
                   app, storedPrices, currentPrices, loaded, orders, dbOrders,
                   payments, incomeEntries, expenseEntries, nextId>>

\* the Add button of a material card
MaterialCard_addStockClick ==
    /\ app = "dashboard"
    /\ \E i \in 1..NumMaterials, additionalStock \in StockInputs :
          /\ i <= Len(materials)
          /\ additionalStock /= <<>> =>
                materials[i].stock + additionalStock[1] <= MaxStock
          /\ materials' = MaterialCard_handleStockUpdate(materials, materials[i].id,
                                                         additionalStock)
    /\ UNCHANGED <<sessionVars, filterVars, ledgerDbVars, usageList, batchSize,
                   app, storedPrices, currentPrices, loaded, orders, dbOrders,
                   payments, incomeEntries, expenseEntries, nextId>>

\* the confirm button of a material price being edited
MaterialCard_savePriceClick ==
    /\ app = "dashboard"
    /\ \E i \in 1..NumMaterials, newPrice \in MaterialPriceInputs :
          /\ i <= Len(materials)
          /\ materials' = MaterialCard_handlePriceUpdate(materials, materials[i].id,
                                                         newPrice)
    /\ UNCHANGED <<sessionVars, filterVars, ledgerDbVars, usageList, batchSize,
                   app, storedPrices, currentPrices, loaded, orders, dbOrders,
                   payments, incomeEntries, expenseEntries, nextId>>

\* onChange of the batch size field
MaterialUsageForm_batchSizeChange ==
    /\ app = "dashboard"
    /\ Len(materials) > 0
    /\ \E b \in BatchInputs : batchSize' = b
    /\ UNCHANGED <<sessionVars, filterVars, ledgerDbVars, materials, usageList,
                   app, storedPrices, currentPrices, loaded, orders, dbOrders,
                   payments, incomeEntries, expenseEntries, nextId>>

\* the form is submitted: the required field with min 0 is filled in, the
\* usage is recorded and the form is closed
MaterialUsageForm_handleSubmit ==
    /\ app = "dashboard"
    /\ Len(materials) > 0
    /\ batchSize /= <<>>
    /\ batchSize[1] >= 0
    /\ LET usageData == MaterialUsageForm_usageData(materials, batchSize)
       IN  IF usageData = <<>>
           THEN UNCHANGED <<usageList, batchSize>>
           ELSE /\ Len(usageList) < MaxUsages
                /\ usageList' = addMaterialUsage(usageList, usageData[1])
                /\ batchSize' = <<>>
    /\ UNCHANGED <<sessionVars, filterVars, ledgerDbVars, materials,
                   app, storedPrices, currentPrices, loaded, orders, dbOrders,
                   payments, incomeEntries, expenseEntries, nextId>>

\* order creation and deletion and payments wait for the mount effect
NextMaterials ==
    \/ Dash_initializeDefaultData
    \/ MaterialCard_addStockClick
    \/ MaterialCard_savePriceClick
    \/ MaterialUsageForm_batchSizeChange
    \/ MaterialUsageForm_handleSubmit
    \/ (Len(materials) > 0 /\ Dash_handleSubmitOf(BookNames, BookVariants,
                                  UsageTypings, MaxOrders, MaxOrders))
    \/ (Len(materials) > 0 /\ Dash_handleDeleteOrder)
    \/ (Len(materials) > 0 /\ PaymentForm_handleSubmit)
    \/ (Len(materials) > 0 /\ handleQuickPayment)

SpecMaterials == InitMaterialsSpec /\ [][NextMaterials]_vars

----------------------------------------------------------------------------
(* Properties of the material calculations and the material stock *)

\* finished-product weights in grams around whole batches of 5 kg
Weights ==
    {w \in {n * 5000 + d : n \in 0..MaxBatches, d \in {-100, -50, 0, 50, 100}} :
        w >= 0}

\* the least number of 5 kg batch slots that hold w grams
Slots(w) ==
    CHOOSE n \in 0..(MaxBatches + 1) :
        /\ n * 5000 >= w
        /\ \A m \in 0..(MaxBatches + 1) : m * 5000 >= w => n <= m

GasMinutesOf(w) == calculateMaterialRequirements(w).gasMinutes

\* C15: for every finished-product weight w in grams
\* calculateMaterialRequirements(w).gasMinutes = ceil((w/1000)/5) * 30, whole
\* 5 kg batch slots of 30 minutes each: 5.1 kg gives 60 minutes, exactly 5 kg
\* gives 30 and weight 0 gives 0; the usages recorded carry that figure.
C15_GasMinutesQuantized ==
    /\ \A w \in Weights : GasMinutesOf(w) = Fx(Slots(w) * 30)
    /\ GasMinutesOf(5100) = Fx(60)
    /\ GasMinutesOf(5000) = Fx(30)
    /\ GasMinutesOf(0) = 0
    /\ \A k \in 1..Len(usageList) :
          usageList[k].materials.gasMinutes =
              Fx(Slots(usageList[k].batchSize * 100) * 30)

\* a batch of 5.1 kg was recorded with 60 gas minutes
C15_Witness ==
    /\ Len(usageList) = 1
    /\ usageList[1].batchSize = 51
    /\ usageList[1].materials.gasMinutes = Fx(60)

\* the price of the first material named like the key, whatever the case of
\* the letters; 0 when there is none
PriceOfKey(list, key) ==
    LET named == {i \in 1..Len(list) : toLowerCase(list[i].name) = toLowerCase(key)}
    IN  IF named = {} THEN 0
        ELSE list[CHOOSE i \in named : \A j \in named : i <= j].pricePerUnit

\* gas contribution plus the priced quantities of the other keys
ExpectedCost(usage, list) ==
    (IF "gasMinutes" \in DOMAIN usage
     THEN usage.gasMinutes * GAS_COST_PER_MINUTE ELSE 0)
    + SetSum(DOMAIN usage \ {"gasMinutes"},
             [k \in DOMAIN usage \ {"gasMinutes"} |-> usage[k] * PriceOfKey(list, k)])

\* the requirement objects the cost is computed for
RequirementObjects == {EmptyObj} \cup {calculateMaterialRequirements(w) : w \in Weights}

\* the material lists the cost is computed against: the stored one, the one
\* of the first render and one with the first material gone
MaterialLists == {materials, <<>>, SubSeq(materials, 2, Len(materials))}

\* C16: calculateProductionCost returns gasMinutes * the per-minute gas rate
\* plus, for every other requirement key, quantity * pricePerUnit of the
\* material whose name matches the key case-insensitively; a key without a
\* matching material contributes zero, and with an empty material list the
\* result is the gas contribution alone.
C16_ProductionCost ==
    /\ [](\A usage \in RequirementObjects :
            /\ \A list \in MaterialLists :
                  calculateProductionCost(usage, list) = ExpectedCost(usage, list)
            /\ calculateProductionCost(usage, <<>>) =
                  (IF usage = EmptyObj THEN 0
                   ELSE usage.gasMinutes * GAS_COST_PER_MINUTE))
    /\ [][Len(usageList') > Len(usageList) =>
             LET usage == usageList'[Len(usageList')]
             IN  usage.totalCost = ExpectedCost(usage.materials, materials)]_vars

\* a recorded usage whose cost is the gas contribution of 60 minutes plus
\* the priced materials
C16_Witness ==
    /\ Len(usageList) = 1
    /\ calculateProductionCost(usageList[1].materials, <<>>) = Fx(120)
    /\ usageList[1].totalCost > Fx(120)
    /\ usageList[1].totalCost =
          calculateProductionCost(usageList[1].materials, materials)

RequirementFields == {"maida", "oil", "salt", "ajwain", "gasMinutes"}

\* C17: for all weights 0 <= w1 <= w2 every output field of
\* calculateMaterialRequirements (maida, oil, salt, ajwain, gasMinutes) at w1
\* is at most the same field at w2; so are the requirements recorded with a
\* usage against those of lighter and of heavier weights.
C17_RequirementsMonotone ==
    \A w1 \in Weights, w2 \in Weights :
       w1 <= w2 =>
          /\ DOMAIN calculateMaterialRequirements(w1) = RequirementFields
          /\ \A f \in RequirementFields :
                /\ calculateMaterialRequirements(w1)[f]
                      <= calculateMaterialRequirements(w2)[f]
                /\ \A k \in 1..Len(usageList) :
                      LET w == usageList[k].batchSize * 100
                      IN  /\ w1 <= w =>
                                calculateMaterialRequirements(w1)[f]
                                   <= usageList[k].materials[f]
                          /\ w <= w2 =>
                                usageList[k].materials[f]
                                   <= calculateMaterialRequirements(w2)[f]

\* the recorded batch of 5.1 kg needs more of everything than 5 kg, and 5 kg
\* no more gas than 4.95 kg
C17_Witness ==
    /\ Len(usageList) = 1
    /\ usageList[1].materials = calculateMaterialRequirements(5100)
    /\ \A f \in RequirementFields :
          calculateMaterialRequirements(5000)[f] < usageList[1].materials[f]
    /\ GasMinutesOf(4950) = GasMinutesOf(5000)

StockOf(list) == [i \in 1..Len(list) |-> list[i].stock]

\* C18: under add stock, material price update, usage recording, order
\* creation and deletion and payments the stock of every material never
\* decreases: add-stock with a quantity <= 0 (or no number) leaves the list
\* unchanged, add-stock with q > 0 adds q to the stock of that material and
\* changes nothing else, and recording a usage leaves every stock unchanged.
C18_StockNeverDecreases ==
    /\ [](\A i \in 1..Len(materials), additionalStock \in StockInputs :
            LET id == materials[i].id
                after == MaterialCard_handleStockUpdate(materials, id, additionalStock)
            IN  IF additionalStock = <<>> \/ additionalStock[1] <= 0
                THEN /\ after = materials
                     /\ additionalStock /= <<>> =>
                           MaterialsContent_handleStockUpdate(materials, id,
                               additionalStock[1]) = materials
                ELSE after = [materials EXCEPT
                                 ![i].stock = @ + additionalStock[1]])
    /\ [][/\ \A i \in 1..Len(materials) :
                /\ i <= Len(materials')
                /\ materials'[i].id = materials[i].id
                /\ materials'[i].stock >= materials[i].stock
          /\ usageList' /= usageList => materials' = materials
          /\ (orders' /= orders \/ payments' /= payments) =>
                materials' = materials
          /\ StockOf(materials') /= StockOf(materials) =>
                \/ Len(materials) = 0
                \/ \E i \in 1..Len(materials), q \in 1..MaxStock :
                      materials' = [materials EXCEPT ![i].stock = @ + q]]_vars

\* stock was added to two materials, twice to the first, and a usage recorded
C18_Witness ==
    /\ Len(materials) = 5
    /\ materials[1].stock = 2
    /\ materials[2].stock = 1
    /\ materials[3].stock = 0
    /\ materials[1].pricePerUnit = 1
    /\ Len(usageList) = 1

----------------------------------------------------------------------------
(* Filtered views of the tracker and of the api copy *)

\* the characters of the strings the forms and search boxes are fed
Chars(s) ==
    CASE s = ""     -> <<>>
      [] s = " "    -> <<" ">>
      [] s = "Asha" -> <<"A", "s", "h", "a">>
      [] s = "Oil"  -> <<"O", "i", "l">>
      [] s = "Due"  -> <<"D", "u", "e">>
      [] s = "AS"   -> <<"A", "S">>
      [] s = "IL"   -> <<"I", "L">>
      [] s = "UE"   -> <<"U", "E">>
      [] s = "1"    -> <<"1">>
      [] s = "pending"   -> <<"p", "e", "n", "d", "i", "n", "g">>

Digits == <<"0", "1", "2", "3", "4", "5", "6", "7", "8", "9">>

\* Date.now().toString(): the decimal digits of an id
RECURSIVE IdChars(_)
IdChars(n) ==
    IF n < 10 THEN <<Digits[n + 1]>>
    ELSE IdChars(n \div 10) \o <<Digits[(n % 10) + 1]>>

LowerChar(c) ==
    CASE c = "A" -> "a"
      [] c = "D" -> "d"
      [] c = "E" -> "e"
      [] c = "I" -> "i"
      [] c = "L" -> "l"
      [] c = "O" -> "o"
      [] c = "S" -> "s"
      [] c = "U" -> "u"
      [] OTHER   -> c

\* String.prototype.toLowerCase, character by character
String_toLowerCase(cs) == [i \in 1..Len(cs) |-> LowerChar(cs[i])]

\* String.prototype.includes
String_includes(cs, search) ==
    \E k \in 0..(Len(cs) - Len(search)) : SubSeq(cs, k + 1, k + Len(search)) = search

\* the search text compared as typed; C20 tells it from IncludesLowered
IncludesLowered_AsTyped(cs, search) ==
    String_includes(String_toLowerCase(cs), Chars(search))

\* cs.toLowerCase().includes(search.toLowerCase())
IncludesLowered(cs, search) ==
    String_includes(String_toLowerCase(cs), String_toLowerCase(Chars(search)))

\* entry.field && entry.field.toLowerCase().includes(search.toLowerCase())
OptionalIncludes(entry, field, search) ==
    /\ field \in DOMAIN entry
    /\ entry[field] /= ""
    /\ IncludesLowered(Chars(entry[field]), search)

\* getFilteredOrders
getFilteredOrders(list, search, status, priceType) ==
    SelectSeq(list, LAMBDA order :
        LET matchesSearch == \/ search = ""
                             \/ IncludesLowered(Chars(order.customerName), search)
                             \/ IncludesLowered(IdChars(order.id), search)
            matchesStatus == status = "all" \/ order.status = status
            matchesPriceType == \/ priceType = "all"
                                \/ Lookup(order, "priceType") = <<priceType>>
        IN  matchesSearch /\ matchesStatus /\ matchesPriceType)

\* getFilteredIncome
getFilteredIncome(list, search) ==
    SelectSeq(list, LAMBDA entry :
        \/ search = ""
        \/ IncludesLowered(Chars(entry.customerName), search)
        \/ OptionalIncludes(entry, "orderSize", search)
        \/ OptionalIncludes(entry, "remarks", search))

\* getFilteredExpenses
getFilteredExpenses(list, search, type) ==
    SelectSeq(list, LAMBDA entry :
        LET matchesSearch == \/ search = ""
                             \/ IncludesLowered(Chars(entry.item), search)
                             \/ OptionalIncludes(entry, "remarks", search)
            matchesType == \/ type = "all"
                           \/ (type = "business" /\ ~entry.isExtra)
                           \/ (type = "extra" /\ entry.isExtra)
        IN  matchesSearch /\ matchesType)

\* what is typed into the three search boxes
OrderSearchTerms == {"", "AS", "1"}

IncomeSearchTerms == {"", "UE"}

ExpenseSearchTerms == {"", "IL"}

StatusFilters == {"all", "pending", "completed"}

PriceTypeFilters == {"all", "retail", "wholesale"}

ExpenseTypeFilters == {"all", "business", "extra"}

\* onChange of the search box of a tab
searchBoxChange ==
    /\ \/ \E value \in OrderSearchTerms :
             searchFilters' = [searchFilters EXCEPT !.orders = value]
       \/ \E value \in IncomeSearchTerms :
             searchFilters' = [searchFilters EXCEPT !.income = value]
       \/ \E value \in ExpenseSearchTerms :
             searchFilters' = [searchFilters EXCEPT !.expenses = value]
    /\ UNCHANGED <<sessionVars, materialVars, ledgerDbVars, statusFilter, priceTypeFilter,
                   expenseTypeFilter,
                   app, storedPrices, currentPrices, loaded, orders, dbOrders,
                   payments, incomeEntries, expenseEntries, nextId>>

\* onValueChange of the status, price type and expense type selects
filterSelectChange ==
    /\ \/ /\ \E value \in StatusFilters : statusFilter' = value
          /\ UNCHANGED <<priceTypeFilter, expenseTypeFilter>>
       \/ /\ \E value \in PriceTypeFilters : priceTypeFilter' = value
          /\ UNCHANGED <<statusFilter, expenseTypeFilter>>
       \/ /\ \E value \in ExpenseTypeFilters : expenseTypeFilter' = value
          /\ UNCHANGED <<statusFilter, priceTypeFilter>>
    /\ UNCHANGED <<sessionVars, materialVars, ledgerDbVars, searchFilters,
                   app, storedPrices, currentPrices, loaded, orders, dbOrders,
                   payments, incomeEntries, expenseEntries, nextId>>

\* the Clear buttons of the three tabs
clearFiltersClick ==
    /\ \/ /\ searchFilters' = [searchFilters EXCEPT !.orders = ""]
          /\ statusFilter' = "all"
          /\ priceTypeFilter' = "all"
          /\ UNCHANGED expenseTypeFilter
       \/ /\ searchFilters' = [searchFilters EXCEPT !.income = ""]
          /\ UNCHANGED <<statusFilter, priceTypeFilter, expenseTypeFilter>>
       \/ /\ searchFilters' = [searchFilters EXCEPT !.expenses = ""]
          /\ expenseTypeFilter' = "all"
          /\ UNCHANGED <<statusFilter, priceTypeFilter>>
    /\ UNCHANGED <<sessionVars, materialVars, ledgerDbVars,
                   app, storedPrices, currentPrices, loaded, orders, dbOrders,
                   payments, incomeEntries, expenseEntries, nextId>>

\* the forms of the filtered views: one name, one item, one amount, the
\* first quantity input
ViewNames == {"Asha"}

ViewItems == {"Oil"}

ViewAmounts == {<<1>>}

ViewRemarks == {"", "Due"}

ViewTypings == {typed \in Typings(app) :
                   /\ typed[1] = <<MaxQty>>
                   /\ \A i \in 2..NumSizes : typed[i] = <<>>}

NextViews ==
    \/ searchBoxChange
    \/ filterSelectChange
    \/ clearFiltersClick
    \/ Api_loadData
    \/ Trk_handleOrderSubmitOf(ViewNames, EditVariants(app), ViewTypings,
                               MaxViewEntries, MaxViewId)
    \/ Api_handleOrderSubmitOf(ViewNames, BookVariants, ViewTypings,
                               MaxViewEntries, MaxViewId)
    \/ Trk_statusBadgeClick
    \/ Api_statusBadgeClick
    \/ (app = "tracker" /\ loaded
          /\ Trk_handleIncomeSubmitOf(ViewNames, ViewAmounts, ViewRemarks,
                                      MaxViewEntries, MaxViewId))
    \/ (app = "tracker" /\ loaded
          /\ Trk_handleExpenseSubmitOf(ViewItems, ViewAmounts, ViewRemarks,
                                       MaxViewEntries, MaxViewId))
    \/ (app = "tracker" /\ loaded /\ Trk_toggleExtraClick)
    \/ Api_handleIncomeSubmitOf(ViewNames, ViewAmounts, ViewRemarks,
                                MaxViewEntries, MaxViewId)
    \/ Api_handleExpenseSubmitOf(ViewItems, ViewAmounts, ViewRemarks,
                                 MaxViewEntries, MaxViewId)
    \/ Api_toggleExtraClick

SpecViews == InitExpenses /\ [][NextViews]_vars

----------------------------------------------------------------------------
(* Properties of the expense toggle and of the filtered views *)

\* what toggleExpenseExtra(id) of the running copy can leave behind
ToggleExtraOutcomes(db, local, id) ==
    IF app = "tracker"
    THEN {[db |-> db, local |-> toggleExpenseExtra(local, id)]}
    ELSE {Api_toggleExpenseExtra(getUp, putUp, fallbackGetUp, db, local, id) :
             getUp \in BOOLEAN, putUp \in BOOLEAN, fallbackGetUp \in BOOLEAN}

\* the list with isExtra of the expense id negated and nothing else changed
FlippedExtra(list, id) ==
    [i \in 1..Len(list) |->
        IF list[i].id = id THEN [list[i] EXCEPT !.isExtra = ~@] ELSE list[i]]

ExpenseIds == {expenseEntries[i].id : i \in 1..Len(expenseEntries)}

\* C19: toggleExpenseExtra(id) negates isExtra of the expense with that id
\* and changes no other field, no other expense and no income entry; applied
\* twice it restores the collection; with an id that matches no expense it
\* changes nothing.
C19_ToggleFlipsOnlyIsExtra ==
    /\ [](/\ \A id \in ExpenseIds :
               \A once \in ToggleExtraOutcomes(dbExpenses, expenseEntries, id) :
                  /\ once.local = FlippedExtra(expenseEntries, id)
                  /\ once.db = dbExpenses
                  /\ \A twice \in ToggleExtraOutcomes(once.db, once.local, id) :
                        /\ twice.local = expenseEntries
                        /\ twice.db = dbExpenses
          /\ \A id \in (1..(MaxLedgerId + 1)) \ ExpenseIds :
               \A once \in ToggleExtraOutcomes(dbExpenses, expenseEntries, id) :
                  /\ once.local = expenseEntries
                  /\ once.db = dbExpenses)
    /\ [][(\E id \in ExpenseIds : expenseEntries' = FlippedExtra(expenseEntries, id))
             => /\ incomeEntries' = incomeEntries
                /\ dbPayments' = dbPayments]_vars

\* the text holds the search somewhere, letters compared without their case
HoldsIgnoringCase(text, search) ==
    \E k \in 0..(Len(text) - Len(search)) :
       \A j \in 1..Len(search) : LowerChar(text[k + j]) = LowerChar(search[j])

\* the non-empty texts of the optional fields of an entry
OptionalTexts(entry, fields) ==
    {Chars(entry[f]) : f \in {g \in fields \cap DOMAIN entry : entry[g] /= ""}}

SearchMatches(texts, search) ==
    search = "" \/ \E text \in texts : HoldsIgnoringCase(text, Chars(search))

OrderMatches(order) ==
    /\ SearchMatches({Chars(order.customerName), IdChars(order.id)},
                     searchFilters.orders)
    /\ statusFilter /= "all" => order.status = statusFilter
    /\ priceTypeFilter /= "all" =>
          ("priceType" \in DOMAIN order /\ order.priceType = priceTypeFilter)

IncomeMatches(entry) ==
    SearchMatches({Chars(entry.customerName)}
                     \cup OptionalTexts(entry, {"orderSize", "remarks"}),
                  searchFilters.income)

ExpenseMatches(entry) ==
    /\ SearchMatches({Chars(entry.item)} \cup OptionalTexts(entry, {"remarks"}),
                     searchFilters.expenses)
    /\ expenseTypeFilter = "business" => ~entry.isExtra
    /\ expenseTypeFilter = "extra" => entry.isExtra

\* view lists, in the order of the list, exactly the elements at the
\* positions kept
IsViewOf(view, list, kept) ==
    /\ Len(view) = Cardinality(kept)
    /\ \E at \in [1..Len(view) -> kept] :
          /\ \A k \in 1..Len(view) : view[k] = list[at[k]]
          /\ \A k \in 1..Len(view), l \in 1..Len(view) : k < l => at[k] < at[l]

OrdersViewOf(list) ==
    getFilteredOrders(list, searchFilters.orders, statusFilter, priceTypeFilter)

IncomeViewOf(list) == getFilteredIncome(list, searchFilters.income)

ExpensesViewOf(list) ==
    getFilteredExpenses(list, searchFilters.expenses, expenseTypeFilter)

OrdersView == OrdersViewOf(orders)

IncomeView == IncomeViewOf(incomeEntries)

\* the lists a load can put on the screen: the stored one and, in the api
\* copy, the one the API answers
ListedOrders ==
    {orders} \cup (IF app = "api" THEN {Api_getOrders(TRUE, dbOrders, orders)}
                   ELSE {})

ListedIncome ==
    {incomeEntries} \cup
    (IF app = "api" THEN {Api_getIncomeEntries(TRUE, dbPayments, incomeEntries)}
     ELSE {})

ListedExpenses ==
    {expenseEntries} \cup
    (IF app = "api" THEN {Api_getExpenseEntries(TRUE, dbExpenses, expenseEntries)}
     ELSE {})

\* C20: changing a filter (search text, status, price type, business or
\* extra) leaves the order, income and expense collections unchanged, and each
\* filtered view is a sub-list of its collection holding exactly the elements
\* that satisfy all the active predicates.
C20_FilteredViews ==
    /\ [](/\ \A list \in ListedOrders :
                IsViewOf(OrdersViewOf(list), list,
                         {i \in 1..Len(list) : OrderMatches(list[i])})
          /\ \A list \in ListedIncome :
                IsViewOf(IncomeViewOf(list), list,
                         {i \in 1..Len(list) : IncomeMatches(list[i])})
          /\ \A list \in ListedExpenses :
                IsViewOf(ExpensesViewOf(list), list,
                         {i \in 1..Len(list) : ExpenseMatches(list[i])}))
    /\ [][filterVars' /= filterVars =>
             UNCHANGED <<orders, dbOrders, incomeEntries, expenseEntries,
                         dbPayments, dbExpenses>>]_vars

\* the completed retail order is listed under "AS", completed, retail, and
\* the income entry without remarks is not listed under "UE"
C20_Witness ==
    /\ app = "tracker"
    /\ Len(orders) = 1
    /\ orders[1].status = "completed"
    /\ statusFilter = "completed"
    /\ priceTypeFilter = "retail"
    /\ searchFilters.orders = "AS"
    /\ OrdersView = orders
    /\ Len(incomeEntries) = 1
    /\ searchFilters.income = "UE"
    /\ Len(IncomeView) = 0

----------------------------------------------------------------------------
(* Two tabs on the pricing table of the tracker and of the api copy *)

\* the load effect of the second tab
Tab_loadData ==
    /\ app \in {"tracker", "api"}
    /\ ~tabLoaded
    /\ tabPrices' = IF app = "tracker" THEN Trk_getSellingPrices(storedPrices)
                    ELSE Api_getSellingPrices(storedPrices)
    /\ tabLoaded' = TRUE
    /\ UNCHANGED <<materialVars, filterVars, ledgerDbVars,
                   app, storedPrices, currentPrices, loaded, orders, dbOrders,
                   payments, incomeEntries, expenseEntries, nextId,
                   shownOrders, shownExpenses, pendingRequests>>

\* onChange of a price input of the second tab
Tab_priceInputChangeOf(variants, sizes) ==
    /\ app \in {"tracker", "api"}
    /\ app = "tracker" => tabLoaded
    /\ \E type \in variants, size \in sizes, typed \in PriceInputs :
          LET r == IF app = "tracker"
                   THEN Trk_handlePriceUpdate(storedPrices, tabPrices, type, size,
                                              OrZero(typed))
                   ELSE Api_handlePriceUpdate(storedPrices, tabPrices, type, size,
                                              OrZero(typed))
          IN  /\ storedPrices' = r.storedPrices
              /\ tabPrices' = r.currentPrices
    /\ UNCHANGED <<materialVars, filterVars, ledgerDbVars,
                   app, currentPrices, loaded, tabLoaded, orders, dbOrders,
                   payments, incomeEntries, expenseEntries, nextId,
                   shownOrders, shownExpenses, pendingRequests>>

InitTabs == Init /\ app \in {"tracker", "api"}

NextTabs ==
    \/ Trk_loadData
    \/ Api_loadData
    \/ Tab_loadData
    \/ Trk_priceInputChangeOf(EditVariants(app), BookSizes)
    \/ Api_priceInputChangeOf(EditVariants(app), BookSizes)
    \/ Tab_priceInputChangeOf(EditVariants(app), BookSizes)

SpecTabs == InitTabs /\ [][NextTabs]_vars

\* table[variant][size]: <<price>>, or <<>> when the row or the entry is absent
PriceEntry(table, variant, size) ==
    IF variant \in DOMAIN table THEN Lookup(table[variant], size) ELSE <<>>

\* the persisted table as getSellingPrices reads it
PersistedPrices(stored) ==
    IF app = "tracker" THEN Trk_getSellingPrices(stored)
    ELSE Api_getSellingPrices(stored)

PriceKeys == VariantsOf(app) \X SizeSet

\* C21: with both tabs loaded, when the persisted table holds at an entry the
\* price the first tab has in memory and the second tab does not, a price
\* update by the second tab of any other entry puts the second tab's own
\* value back at that entry: the first tab's update is lost
C21_LostUpdate ==
    [][\A e \in PriceKeys :
          ( /\ loaded /\ tabLoaded
            /\ \E other \in PriceKeys \ {e} :
                  PriceEntry(tabPrices', other[1], other[2])
                    /= PriceEntry(tabPrices, other[1], other[2])
            /\ PriceEntry(PersistedPrices(storedPrices), e[1], e[2])
                  = PriceEntry(currentPrices, e[1], e[2])
            /\ PriceEntry(currentPrices, e[1], e[2])
                  /= PriceEntry(tabPrices, e[1], e[2]) )
          => /\ PriceEntry(PersistedPrices(storedPrices'), e[1], e[2])
                   = PriceEntry(tabPrices, e[1], e[2])
             /\ PriceEntry(PersistedPrices(storedPrices'), e[1], e[2])
                   /= PriceEntry(currentPrices', e[1], e[2])]_vars

\* both tabs loaded the default table, the first tab holds a price of its own
\* at one entry, the second at another, and the persisted table is the second
\* tab's: it has the default price where the first tab saved its own
C21_Witness ==
    /\ loaded /\ tabLoaded
    /\ storedPrices = <<tabPrices>>
    /\ \E e1 \in PriceKeys, e2 \in PriceKeys :
          /\ e1 /= e2
          /\ PriceEntry(currentPrices, e1[1], e1[2])
                /= PriceEntry(PersistedPrices(<<>>), e1[1], e1[2])
          /\ PriceEntry(tabPrices, e1[1], e1[2])
                = PriceEntry(PersistedPrices(<<>>), e1[1], e1[2])
          /\ PriceEntry(tabPrices, e2[1], e2[2])
                /= PriceEntry(PersistedPrices(<<>>), e2[1], e2[2])
          /\ PriceEntry(currentPrices, e2[1], e2[2])
                = PriceEntry(PersistedPrices(<<>>), e2[1], e2[2])

----------------------------------------------------------------------------
(* Properties of the REST backend as the api copy calls it *)

\* C22: a POST to /api/orders or to /api/expenses with the payload the
\* client sends answers 201 and stores the new record: whatever valid order
\* or expense form is submitted in this state, createOrder and createExpense
\* answer 201 and the expense collection grows by that record
C22_PostCreates ==
    app = "api" =>
      /\ \A customerName \in ViewNames, productVariant \in EditVariants(app),
            typed \in ViewTypings :
            LET data == Api_orderData(currentPrices, customerName, "2025-01-01",
                                      PackagesOf(app, typed), productVariant)
            IN  data /= <<>> =>
                  createOrder(Api_orderBody(data[1], nextId), nextId).status = 201
      /\ \A item \in ViewItems, amount \in ViewAmounts, isExtra \in BOOLEAN :
            LET entry == Api_expenseEntry(item, amount, isExtra)
            IN  entry /= <<>> =>
                  LET response ==
                          createExpense(dbExpenses,
                                        [item |-> entry[1].item,
                                         amount |-> entry[1].amount,
                                         date |-> nextId,
                                         isExtra |-> entry[1].isExtra], nextId)
                  IN  /\ response.status = 201
                      /\ Len(response.db) = Len(dbExpenses) + 1

\* the ids of a list of records
IdsOf(list) == {list[i].id : i \in 1..Len(list)}

\* the ids of a backend collection
DbIdsOf(db) == {db[i]._id : i \in 1..Len(db)}

\* C23: in the api copy a record that addOrder, addIncomeEntry or
\* addExpenseEntry has stored, in the backend or in localStorage, and that no
\* delete has removed, is in the result of getOrders, getIncomeEntries or
\* getExpenseEntries whether the GET succeeds or fails
C23_AddedStaysListed ==
    app = "api" =>
      \A ok \in BOOLEAN :
        /\ IdsOf(orders) \cup DbIdsOf(dbOrders)
              \subseteq IdsOf(Api_getOrders(ok, dbOrders, orders))
        /\ IdsOf(incomeEntries) \cup DbIdsOf(dbPayments)
              \subseteq IdsOf(Api_getIncomeEntries(ok, dbPayments, incomeEntries))
        /\ IdsOf(expenseEntries) \cup DbIdsOf(dbExpenses)
              \subseteq IdsOf(Api_getExpenseEntries(ok, dbExpenses, expenseEntries))

----------------------------------------------------------------------------
(* The api copy: badge clicks, their un-awaited requests and the reload *)

InitRace == InitExpenses /\ app = "api"

\* loadData resolves: the three GETs of Promise.all have their own outcomes,
\* and the lists read are put in the React state
Race_loadData ==
    /\ app = "api"
    /\ ~loaded
    /\ \E ordersUp \in BOOLEAN, expensesUp \in BOOLEAN :
          /\ shownOrders' = Api_getOrders(ordersUp, dbOrders, orders)
          /\ shownExpenses' =
                 Api_getExpenseEntries(expensesUp, dbExpenses, expenseEntries)
    /\ currentPrices' = Api_getSellingPrices(storedPrices)
    /\ loaded' = TRUE
    /\ UNCHANGED <<materialVars, filterVars, ledgerDbVars,
                   app, storedPrices, orders, dbOrders, payments,
                   incomeEntries, expenseEntries, nextId,
                   tabPrices, tabLoaded, pendingRequests>>

\* the status Badge of a row: updateOrderStatus is called and not awaited,
\* setRefreshKey starts a reload
Race_statusBadgeClick ==
    /\ app = "api"
    /\ Len(pendingRequests) < MaxInFlight
    /\ \E i \in 1..Len(shownOrders) :
          pendingRequests' =
              Append(pendingRequests,
                     [kind |-> "order", id |-> shownOrders[i].id,
                      status |-> OtherStatus(shownOrders[i].status)])
    /\ loaded' = FALSE
    /\ UNCHANGED <<materialVars, filterVars, ledgerDbVars,
                   app, storedPrices, currentPrices, orders, dbOrders, payments,
                   incomeEntries, expenseEntries, nextId,
                   tabPrices, tabLoaded, shownOrders, shownExpenses>>

\* the Business/Extra Badge of a row: toggleExpenseExtra is called and not
\* awaited, setRefreshKey starts a reload
Race_expenseBadgeClick ==
    /\ app = "api"
    /\ Len(pendingRequests) < MaxInFlight
    /\ \E i \in 1..Len(shownExpenses) :
          pendingRequests' =
              Append(pendingRequests,
                     [kind |-> "expense", id |-> shownExpenses[i].id,
                      status |-> ""])
    /\ loaded' = FALSE
    /\ UNCHANGED <<materialVars, filterVars, ledgerDbVars,
                   app, storedPrices, currentPrices, orders, dbOrders, payments,
                   incomeEntries, expenseEntries, nextId,
                   tabPrices, tabLoaded, shownOrders, shownExpenses>>

\* the oldest un-awaited request runs to its end, before or after the reload
Race_requestSettles ==
    /\ app = "api"
    /\ pendingRequests /= <<>>
    /\ LET request == Head(pendingRequests)
       IN  \E getUp \in BOOLEAN, putUp \in BOOLEAN, fallbackGetUp \in BOOLEAN :
             IF request.kind = "order"
             THEN LET r == Api_updateOrderStatus(putUp, getUp, dbOrders, orders,
                                                 request.id, request.status)
                  IN  /\ orders' = r.local
                      /\ dbOrders' = r.db
                      /\ UNCHANGED <<expenseEntries, dbExpenses>>
             ELSE LET r == Api_toggleExpenseExtra(getUp, putUp, fallbackGetUp,
                                                  dbExpenses, expenseEntries,
                                                  request.id)
                  IN  /\ expenseEntries' = r.local
                      /\ dbExpenses' = r.db
                      /\ UNCHANGED <<orders, dbOrders>>
    /\ pendingRequests' = Tail(pendingRequests)
    /\ UNCHANGED <<materialVars, filterVars, dbPayments,
                   app, storedPrices, currentPrices, loaded, payments,
                   incomeEntries, nextId,
                   tabPrices, tabLoaded, shownOrders, shownExpenses>>

NextRace ==
    \/ Race_loadData
    \/ Race_statusBadgeClick
    \/ Race_expenseBadgeClick
    \/ Race_requestSettles
    \/ Api_handleOrderSubmitOf(ViewNames, BookVariants, ViewTypings,
                               MaxViewEntries, MaxViewId)
    \/ Api_handleExpenseSubmitOf(ViewItems, ViewAmounts, {""},
                                 MaxViewEntries, MaxViewId)

SpecRace == InitRace /\ [][NextRace]_vars

\* the stored records with the id of a shown row
StoredOrderRecords(id) ==
    {o \in {orders[i] : i \in 1..Len(orders)} : o.id = id}
    \cup {Api_mapOrder(dbOrders[i]) : i \in {k \in 1..Len(dbOrders) :
                                                dbOrders[k]._id = id}}

StoredExpenses(id) ==
    LET listed == Api_getExpenseEntries(TRUE, dbExpenses, <<>>)
    IN  {e \in {expenseEntries[i] : i \in 1..Len(expenseEntries)} : e.id = id}
        \cup {listed[i] : i \in {k \in 1..Len(listed) : listed[k].id = id}}

\* C24: in the api copy, when the reload and every request started by a
\* badge click have completed, each row of the orders table shows the status
\* stored for its order and each row of the expenses table the isExtra stored
\* for its expense
C24_ShownIsStored ==
    (app = "api" /\ loaded /\ pendingRequests = <<>>) =>
      /\ \A i \in 1..Len(shownOrders) :
            \A o \in StoredOrderRecords(shownOrders[i].id) :
               o.status = shownOrders[i].status
      /\ \A i \in 1..Len(shownExpenses) :
            \A e \in StoredExpenses(shownExpenses[i].id) :
               e.isExtra = shownExpenses[i].isExtra

----------------------------------------------------------------------------
(* Properties of the order form against the stored order *)

\* the Order Summary the form renders for the selection and the select's value
OrderSummaryShown(packages, variant) ==
    IF app = "dashboard"
    THEN Dash_calculateSummary(storedPrices, packages, variant)
    ELSE IF app = "tracker"
         THEN Trk_calculateOrderSummary(storedPrices, packages, variant)
    ELSE Api_calculateOrderSummary(currentPrices, packages, UndefinedVariant)

\* C25: whatever the order form holds, the totals of the Order Summary it
\* shows are the totalWeight and totalAmount that submitting it stores
C25_ShownTotalsAreStored ==
    \A customerName \in CustomerNames, variant \in EditVariants(app),
       typed \in Typings(app) :
       LET data == OrderDataNow(customerName, PackagesOf(app, typed), variant)
           shown == OrderSummaryShown(PackagesOf(app, typed), variant)
       IN  data /= <<>> =>
             /\ shown.totalWeight = data[1].totalWeight
             /\ shown.totalAmount = data[1].totalAmount

----------------------------------------------------------------------------
(* Pending due of the dashboard and of the profit tab *)

\* DashboardContent: orders.reduce((sum, order) => sum +
\* getPaymentStatus(order.id).pending, 0)
RECURSIVE DashboardContent_reduce(_, _, _, _)
DashboardContent_reduce(i, sum, orderList, paymentList) ==
    IF i > Len(orderList) THEN sum
    ELSE DashboardContent_reduce(
             i + 1,
             sum + getPaymentStatus(paymentList, orderList, orderList[i].id).pending,
             orderList, paymentList)

DashboardContent_totalDue(orderList, paymentList) ==
    DashboardContent_reduce(1, 0, orderList, paymentList)

\* ProfitContent: totalRevenue over the orders, totalPaid over the payments,
\* pendingAmount = totalRevenue - totalPaid
ProfitContent_pendingAmount(orderList, paymentList) ==
    LET totalRevenue ==
            SetSum(1..Len(orderList),
                   [i \in 1..Len(orderList) |-> orderList[i].totalAmount])
        totalPaid == SumAmounts(paymentList)
    IN  totalRevenue - totalPaid

\* C26: in every state reached by creating and deleting orders and recording
\* payments, the Pending Due of the dashboard equals the Pending Due of the
\* profit tab
C26_PendingDueAgree ==
    DashboardContent_totalDue(orders, payments)
        = ProfitContent_pendingAmount(orders, payments)

\* C27: no order is ever over-paid. The payment form rejects a submit with no
\* order selected, with an amount that is not a number > 0, or with an amount
\* above the pending amount of the selected order; every payment that is
\* recorded, by the form or by the quick payment, is for a stored order, has
\* an amount > 0 and at most that order's pending amount; and the pending
\* amount of every stored order is >= 0
C27_NeverOverpaid ==
    /\ [](/\ \A i \in 1..Len(orders) :
               /\ getPaymentStatus(payments, orders, orders[i].id).pending >= 0
               /\ PaidFor(orders[i].id) <= orders[i].totalAmount
           /\ \A orderId \in {<<>>} \cup
                             {<<id>> : id \in pendingOrders(orders, payments)} :
                 \A amount \in PaymentAmountInputs(orders, payments, orderId) :
                    ( \/ orderId = <<>>
                      \/ amount = <<>>
                      \/ amount[1] <= 0
                      \/ amount[1] > getPaymentStatus(payments, orders,
                                                      orderId[1]).pending )
                    => PaymentForm_paymentData(orders, payments, orderId, amount)
                         = <<>>)
    /\ [][payments' /= payments =>
            /\ Len(payments') = Len(payments) + 1
            /\ SubSeq(payments', 1, Len(payments)) = payments
            /\ LET paid == payments'[Len(payments')]
               IN  /\ paid.amount > 0
                   /\ paid.orderId \in IdsOf(orders)
                   /\ paid.amount <= getPaymentStatus(payments, orders,
                                                      paid.orderId).pending]_vars

\* an order paid in two parts, the second one the whole pending amount
C27_Witness ==
    /\ Len(orders) = 1
    /\ Cardinality(PaymentsOf(orders[1].id)) = 2
    /\ getPaymentStatus(payments, orders, orders[1].id).pending = 0
    /\ getPaymentStatus(payments, orders, orders[1].id).status = "Paid"

----------------------------------------------------------------------------
(* Properties of the expense totals of the tracker *)

\* C28: totalExpense + extraExpense is the sum of the amounts of all stored
\* expenses, and toggleExpenseExtra on an expense of amount a moves exactly a
\* from the one total to the other, leaving their sum and totalIncome as
\* they were
C28_TogglePreservesSum ==
    /\ [](/\ Trk_totalExpense(expenseEntries) + Trk_extraExpense(expenseEntries)
                = SetSum(1..Len(expenseEntries), AmountAt(expenseEntries))
           /\ \A i \in 1..Len(expenseEntries) :
                 LET toggled == toggleExpenseExtra(expenseEntries,
                                                   expenseEntries[i].id)
                     a == IF expenseEntries[i].isExtra
                          THEN -expenseEntries[i].amount
                          ELSE expenseEntries[i].amount
                 IN  /\ Trk_totalExpense(toggled)
                           = Trk_totalExpense(expenseEntries) - a
                     /\ Trk_extraExpense(toggled)
                           = Trk_extraExpense(expenseEntries) + a)
    /\ [][(\E i \in 1..Len(expenseEntries) :
              /\ expenseEntries' /= expenseEntries
              /\ expenseEntries' = toggleExpenseExtra(expenseEntries,
                                                      expenseEntries[i].id))
          => /\ Trk_totalExpense(expenseEntries') + Trk_extraExpense(expenseEntries')
                  = Trk_totalExpense(expenseEntries)
                      + Trk_extraExpense(expenseEntries)
             /\ Trk_totalIncome(incomeEntries') = Trk_totalIncome(incomeEntries)
             /\ Trk_totalExpense(expenseEntries')
                  /= Trk_totalExpense(expenseEntries)
                  \/ \A i \in 1..Len(expenseEntries) :
                        expenseEntries'[i].isExtra /= expenseEntries[i].isExtra
                          => expenseEntries[i].amount = 0]_vars

\* income on the books, and two expenses that count, the one made an extra
\* expense and the other a business expense
C28_Witness ==
    /\ app = "tracker"
    /\ Trk_totalIncome(incomeEntries) > 0
    /\ Len(expenseEntries) = 2
    /\ expenseEntries[1].isExtra /\ ~expenseEntries[2].isExtra
    /\ expenseEntries[1].amount = MaxAmount
    /\ expenseEntries[2].amount = 1
    /\ Trk_totalExpense(expenseEntries) = 1
    /\ Trk_extraExpense(expenseEntries) = MaxAmount

----------------------------------------------------------------------------
(* The REST controllers: requests by id *)

\* req.params.id: the 24 hex digits of the ObjectId numbered n (hex), or any
\* other string, such as the ids the client mints for its localStorage records
RestParams == [hex : BOOLEAN, n : 1..MaxRestId]

\* the cast of the id by findById, findByIdAndUpdate and findByIdAndDelete:
\* <<_id>>, or <<>> when the string is no ObjectId and the query rejects
castObjectId(param) == IF param.hex THEN <<param.n>> ELSE <<>>

\* findById and the 404 / 500 answers shared by the three getXxxById
findById(db, param) ==
    LET cast == castObjectId(param)
    IN  IF cast = <<>> THEN [status |-> 500]
        ELSE IF \E i \in 1..Len(db) : db[i]._id = cast[1]
             THEN [status |-> 200,
                   doc |-> db[CHOOSE i \in 1..Len(db) : db[i]._id = cast[1]]]
        ELSE [status |-> 404]

getOrderById(db, param) == findById(db, param)

getExpenseById(db, param) == findById(db, param)

getPaymentById(db, param) == findById(db, param)

paymentSchema_methodEnum == {"cash", "upi", "bank", "other"}

\* backend updatePayment: findByIdAndUpdate(id, body, {runValidators: true})
updatePayment(db, id, body) ==
    LET hits == {i \in 1..Len(db) : db[i]._id = id}
    IN  IF "paymentMethod" \in DOMAIN body
           /\ body.paymentMethod \notin paymentSchema_methodEnum
        THEN [status |-> 400, db |-> db]
        ELSE IF hits = {} THEN [status |-> 404, db |-> db]
        ELSE LET i == CHOOSE k \in hits : TRUE
             IN  [status |-> 200,
                  db |-> [db EXCEPT ![i] =
                            [f \in DOMAIN @ |->
                               IF f \in DOMAIN body THEN body[f] ELSE @[f]]]]

\* PUT /:id of a collection: a cast error is caught and answered 400
Rest_put(kind, db, param, body) ==
    LET cast == castObjectId(param)
    IN  IF cast = <<>> THEN [status |-> 400, db |-> db]
        ELSE IF kind = "orders" THEN updateOrder(db, cast[1], body)
        ELSE IF kind = "expenses" THEN updateExpense(db, cast[1], body)
        ELSE updatePayment(db, cast[1], body)

\* DELETE /:id of a collection: a cast error is caught and answered 500
Rest_delete(kind, db, param) ==
    LET cast == castObjectId(param)
    IN  IF cast = <<>> THEN [status |-> 500, db |-> db]
        ELSE IF kind = "orders" THEN deleteOrder(db, cast[1])
        ELSE IF kind = "expenses" THEN deleteExpense(db, cast[1])
        ELSE deletePayment(db, cast[1])

RestKinds == {"orders", "expenses", "payments"}

RestDb(kind) ==
    IF kind = "orders" THEN dbOrders
    ELSE IF kind = "expenses" THEN dbExpenses
    ELSE dbPayments

\* request bodies of PUT: a status, an amount, a payment method
RestPutBodies(kind) ==
    IF kind = "orders" THEN {[status |-> "completed"], [status |-> "paid"]}
    ELSE IF kind = "expenses" THEN {[isExtra |-> TRUE]}
    ELSE {[amount |-> MaxAmount + 1], [paymentMethod |-> "cheque"]}

InitRest == InitExpenses /\ app = "api"

\* POST /api/orders and POST /api/expenses with the bodies of the client
Rest_postOrderOrExpense ==
    /\ nextId <= MaxRestId
    /\ \E kind \in {"orders", "expenses"} :
          IF kind = "orders"
          THEN LET response ==
                       createOrder([customerName |-> "Asha",
                                    deliveryDate |-> "2025-01-01",
                                    packages |-> <<>>, totalWeight |-> 50,
                                    totalAmount |-> Rs(15), status |-> "pending",
                                    productVariant |-> "sada", date |-> nextId],
                                   nextId)
               IN  /\ dbOrders' = IF response.status = 201
                                  THEN Append(dbOrders, response.order)
                                  ELSE dbOrders
                   /\ nextId' = IF response.status = 201 THEN nextId + 1 ELSE nextId
                   /\ UNCHANGED dbExpenses
          ELSE LET response ==
                       createExpense(dbExpenses,
                                     [item |-> "Oil", amount |-> 1,
                                      date |-> nextId, isExtra |-> FALSE], nextId)
               IN  /\ dbExpenses' = response.db
                   /\ nextId' = IF response.status = 201 THEN nextId + 1 ELSE nextId
                   /\ UNCHANGED dbOrders
    /\ UNCHANGED <<sessionVars, materialVars, filterVars, dbPayments,
                   app, storedPrices, currentPrices, loaded, orders, payments,
                   incomeEntries, expenseEntries>>

\* POST /api/payments
Rest_postPayment ==
    /\ nextId <= MaxRestId
    /\ Len(dbPayments) < MaxRestRecords
    /\ \E amount \in 1..MaxAmount, remarks \in ViewRemarks :
          dbPayments' = createPayment(dbPayments,
                                      [customerName |-> "Asha", amount |-> amount]
                                        @@ RemarksField(remarks), nextId).db
    /\ nextId' = nextId + 1
    /\ UNCHANGED <<sessionVars, materialVars, filterVars, dbExpenses,
                   app, storedPrices, currentPrices, loaded, orders, dbOrders,
                   payments, incomeEntries, expenseEntries>>

\* PUT /api/payments/:id
Rest_putPayment ==
    /\ \E param \in RestParams, body \in RestPutBodies("payments") :
          dbPayments' = Rest_put("payments", dbPayments, param, body).db
    /\ UNCHANGED <<sessionVars, materialVars, filterVars, dbExpenses,
                   app, storedPrices, currentPrices, loaded, orders, dbOrders,
                   payments, incomeEntries, expenseEntries, nextId>>

\* DELETE /api/payments/:id
Rest_deletePayment ==
    /\ \E param \in RestParams :
          dbPayments' = Rest_delete("payments", dbPayments, param).db
    /\ UNCHANGED <<sessionVars, materialVars, filterVars, dbExpenses,
                   app, storedPrices, currentPrices, loaded, orders, dbOrders,
                   payments, incomeEntries, expenseEntries, nextId>>

NextRest ==
    \/ Rest_postOrderOrExpense
    \/ Rest_postPayment
    \/ Rest_putPayment
    \/ Rest_deletePayment

SpecRest == InitRest /\ [][NextRest]_vars

\* the id is one of the collection
RestStored(db, param) ==
    castObjectId(param) /= <<>> /\ castObjectId(param)[1] \in DbIdsOf(db)

\* C29: for the orders, payments and expenses controllers, a GET, PUT or
\* DELETE by an id that is not stored answers 404 and leaves the collection
\* as it is, and a DELETE by a stored id removes that record and no other
C29_UnknownIdIs404 ==
    \A kind \in RestKinds, param \in RestParams :
       LET db == RestDb(kind)
           deleted == Rest_delete(kind, db, param)
       IN  IF RestStored(db, param)
           THEN /\ deleted.status = 200
                /\ deleted.db =
                      SelectSeq(db, LAMBDA r : r._id /= castObjectId(param)[1])
                /\ Len(deleted.db) = Len(db) - 1
           ELSE /\ findById(db, param).status = 404
                /\ deleted.status = 404
                /\ deleted.db = db
                /\ \A body \in RestPutBodies(kind) :
                      /\ Rest_put(kind, db, param, body).status = 404
                      /\ Rest_put(kind, db, param, body).db = db

----------------------------------------------------------------------------
(* The dashboard and the tracker on the same pricing table *)

\* rows of a stored table: any of the edited sizes may be missing, and a
\* price may be 0
PricingRows == UNION {[S -> 0..MaxPrice] : S \in SUBSET EditSizes}

\* what localStorage can hold under the pricing key: no item, or a table in
\* which any price type may be missing
PricingTables ==
    {<<>>} \cup
    {<<t>> : t \in UNION {[S -> PricingRows] : S \in SUBSET PriceTypes}}

InitEquiv ==
    /\ app \in {"dashboard", "tracker"}
    /\ storedPrices \in PricingTables
    /\ currentPrices = (IF app = "dashboard" THEN Dash_getSellingPrices(storedPrices)
                        ELSE Trk_getSellingPrices(storedPrices))
    /\ loaded = TRUE
    /\ orders = <<>>
    /\ dbOrders = <<>>
    /\ payments = <<>>
    /\ incomeEntries = <<>>
    /\ expenseEntries = <<>>
    /\ nextId = 1
    /\ InitMaterials
    /\ InitFilters
    /\ InitLedgerDb
    /\ InitSession

NextEquiv ==
    \/ Dash_savePriceClickOf(EditVariants(app), EditSizes)
    \/ Trk_priceInputChangeOf(EditVariants(app), EditSizes)
    \/ Dash_handleSubmitOf(ViewNames, EditVariants(app), ViewTypings,
                           MaxOrders, MaxOrders)
    \/ Trk_handleOrderSubmitOf(ViewNames, EditVariants(app), ViewTypings,
                               MaxOrders, MaxOrders)

SpecEquiv == InitEquiv /\ [][NextEquiv]_vars

\* C30: on every stored pricing table, with a price type missing, with size
\* entries missing or 0, the dashboard's calculateSummary and the tracker's
\* calculateOrderSummary return the same totalWeight, totalPackets and
\* totalAmount for every selection and price type, and the two submit
\* handlers build the same line items
C30_DashboardEqualsTracker ==
    \A priceType \in PriceTypes \cup {UndefinedVariant},
       packages \in Selections(EditSizes, MaxQty) :
       /\ Dash_calculateSummary(storedPrices, packages, priceType)
             = Trk_calculateOrderSummary(storedPrices, packages, priceType)
       /\ Dash_packageItems(storedPrices, packages, priceType)
             = Trk_packageItems(storedPrices, packages, priceType)

\* a stored table without wholesale row whose retail price of 50 g is 0: a
\* wholesale packet of 50 g is priced by the formula in both copies, and an
\* order was stored from that table
C30_Witness ==
    /\ storedPrices /= <<>>
    /\ "wholesale" \notin DOMAIN storedPrices[1]
    /\ "retail" \in DOMAIN storedPrices[1]
    /\ Lookup(storedPrices[1]["retail"], 50) = <<0>>
    /\ Trk_calculateOrderSummary(storedPrices, (50 :> 1), "wholesale").totalAmount
          = (50 * 2) \div 5
    /\ Dash_packageItems(storedPrices, (50 :> 1), "wholesale")[1].amount
          = (50 * 2) \div 5
    /\ Len(orders) = 1

====
